---- MODULE Spec2Model ----
(***************************************************************************)
(* Corn hedging tracker: the Firebase-synced state hook (useFirebaseState) *)
(* and the dashboard operations built on it (CornHedgingTracker).          *)
(*                                                                         *)
(* Clients are browser sessions sharing one Realtime Database.  Strings    *)
(* the code computes on (crop years, quantity inputs) are sequences of     *)
(* one-character strings; an optional value (null or a value) is a         *)
(* sequence of length 0 or 1.                                              *)
(***************************************************************************)
EXTENDS Integers, Sequences, FiniteSets, TLC

VARIABLES
    backend,        \* path -> optional value held by the database
    inbox,          \* client -> snapshots sent to the client, not yet delivered
    sent,           \* client -> the set() calls of the client's latest handler
    mounted,        \* client -> "init" | "mounted" | "unmounted"
    loadTime,       \* client -> Date.now() when the module was loaded
    value,          \* client -> path -> the hook's value state
    loading,        \* client -> path -> the hook's loading state
    isInitialLoad,  \* client -> path -> the hook's isInitialLoad ref
    timerRef,       \* client -> path -> the hook's timerRef (0 is null)
    timers,         \* client -> the browser's active timeouts
    timerSeq,       \* client -> the last timeout id the browser gave out
    idc,            \* client -> the module-level _id counter
    clock,          \* client -> the client's wall clock (Date.now())
    selectedYear,   \* client -> selectedYear state
    editingHedge,   \* client -> optional id, editingHedge state
    hedgeForm,      \* client -> hedgeForm state
    hedgeModalOpen, \* client -> hedgeModalOpen state
    ops,            \* number of mutating operations the users have performed
    burst,          \* client -> path -> mutate calls since the last write of a
                    \*   debounced path, and the value the latest one computed
    edit,           \* client -> optional last edit the client made to the ledger
    done,           \* client -> the last operation the user performed, its inputs
    note,           \* client -> optional last snapshot the onValue callback got
    issued          \* client -> the ids genId() has returned in the client

vars == << backend, inbox, sent, mounted, loadTime, value, loading,
           isInitialLoad, timerRef, timers, timerSeq, idc, clock,
           selectedYear, editingHedge, hedgeForm, hedgeModalOpen, ops, burst,
           edit, done, note, issued >>

----------------------------------------------------------------------------
(* Bounds of the model *)

MaxOps == 2      \* mutating operations of all users together
MaxClock == 1    \* the wall clocks run from 0 to MaxClock

Clients == {1, 2}
Paths == {"consumption", "production", "hedges", "cropYears", "auditLog"}

----------------------------------------------------------------------------
(* Text *)

Str4(a, b, c, d) == << a, b, c, d >>
Y2024 == Str4("2", "0", "2", "4")
Y2025 == Str4("2", "0", "2", "5")
Y2026 == Str4("2", "0", "2", "6")
Y2027 == Str4("2", "0", "2", "7")
Y2028 == Str4("2", "0", "2", "8")

DigitChars == {"0", "1", "2", "3", "4", "5", "6", "7", "8", "9"}

\* UTF-16 code unit of the characters the model uses
CharCode(ch) ==
    CASE ch = " " -> 32
      [] ch = "-" -> 45
      [] ch = "." -> 46
      [] ch = "0" -> 48
      [] ch = "1" -> 49
      [] ch = "2" -> 50
      [] ch = "3" -> 51
      [] ch = "4" -> 52
      [] ch = "5" -> 53
      [] ch = "6" -> 54
      [] ch = "7" -> 55
      [] ch = "8" -> 56
      [] ch = "9" -> 57
      [] ch = "a" -> 97
      [] ch = "e" -> 101
      [] ch = "x" -> 120

DigitVal(ch) == CharCode(ch) - 48

\* String.prototype.trim
RECURSIVE TrimLeft(_)
TrimLeft(s) ==
    IF s # << >> /\ Head(s) = " " THEN TrimLeft(Tail(s)) ELSE s

RECURSIVE TrimRight(_)
TrimRight(s) ==
    IF s # << >> /\ s[Len(s)] = " "
    THEN TrimRight(SubSeq(s, 1, Len(s) - 1))
    ELSE s

Trim(s) == TrimRight(TrimLeft(s))

\* the longest prefix of s made of decimal digits
RECURSIVE DigitPrefix(_)
DigitPrefix(s) ==
    IF s # << >> /\ Head(s) \in DigitChars
    THEN << Head(s) >> \o DigitPrefix(Tail(s))
    ELSE << >>

RECURSIVE DigitsValue(_, _)
DigitsValue(s, acc) ==
    IF s = << >> THEN acc ELSE DigitsValue(Tail(s), acc * 10 + DigitVal(Head(s)))

\* parseInt(text): << >> is NaN, << n >> the integer n
ParseInt(text) ==
    LET t    == TrimLeft(text)
        neg  == t # << >> /\ Head(t) = "-"
        body == IF neg THEN Tail(t) ELSE t
        ds   == DigitPrefix(body)
    IN  IF ds = << >> THEN << >>
        ELSE << (IF neg THEN -1 ELSE 1) * DigitsValue(ds, 0) >>

DigitChar(d) == CHOOSE ch \in DigitChars : DigitVal(ch) = d

\* String(n) for an integer n
RECURSIVE NatToText(_)
NatToText(n) ==
    IF n < 10 THEN << DigitChar(n) >>
    ELSE NatToText(n \div 10) \o << DigitChar(n % 10) >>

NumToText(n) == IF n < 0 THEN << "-" >> \o NatToText(-n) ELSE NatToText(n)

\* a < b in the order Array.prototype.sort() uses by default (code units)
RECURSIVE StrLess(_, _)
StrLess(a, b) ==
    IF b = << >> THEN FALSE
    ELSE IF a = << >> THEN TRUE
    ELSE IF Head(a) = Head(b) THEN StrLess(Tail(a), Tail(b))
    ELSE CharCode(Head(a)) < CharCode(Head(b))

----------------------------------------------------------------------------
(* Objects and arrays *)

\* { ...obj, [k]: v }
Put(obj, k, v) == [x \in (DOMAIN obj) \cup {k} |-> IF x = k THEN v ELSE obj[x]]

\* delete obj[k]
Remove(obj, k) == [x \in (DOMAIN obj) \ {k} |-> obj[x]]

\* obj?.[k] || dflt
Get(obj, k, dflt) == IF k \in DOMAIN obj THEN obj[k] ELSE dflt

\* arr.filter(x => x # y)
RECURSIVE FilterOut(_, _)
FilterOut(arr, y) ==
    IF arr = << >> THEN << >>
    ELSE IF Head(arr) = y THEN FilterOut(Tail(arr), y)
    ELSE << Head(arr) >> \o FilterOut(Tail(arr), y)

Includes(arr, y) == \E i \in DOMAIN arr : arr[i] = y

\* insertion of y into a sorted array, before the first greater element
RECURSIVE InsertSorted(_, _)
InsertSorted(arr, y) ==
    IF arr = << >> THEN << y >>
    ELSE IF StrLess(y, Head(arr)) THEN << y >> \o arr
    ELSE << Head(arr) >> \o InsertSorted(Tail(arr), y)

\* a sort that leaves the array as it is
SortNone(arr) == arr

\* arr.sort()
RECURSIVE Sort(_)
Sort(arr) ==
    IF arr = << >> THEN << >> ELSE InsertSorted(Sort(Tail(arr)), Head(arr))

----------------------------------------------------------------------------
(* Constants and default data *)

DEFAULT_CROP_YEARS == << Y2024, Y2025, Y2026, Y2027 >>
ENTITIES == << "Hog Finishing", "Feedlot", "Farming" >>
CORN_TYPES == << "High Moisture Corn", "Dry Corn", "Silage Corn" >>

defaultConsumption ==
    [e \in {"Hog Finishing", "Feedlot"} |->
        IF e = "Hog Finishing"
        THEN (Y2024 :> 2400000) @@ (Y2025 :> 2600000) @@
             (Y2026 :> 2800000) @@ (Y2027 :> 3000000)
        ELSE (Y2024 :> 1800000) @@ (Y2025 :> 1950000) @@
             (Y2026 :> 2100000) @@ (Y2027 :> 2200000)]

ProdRow(hm, dry, sil) ==
    ("High Moisture Corn" :> hm) @@ ("Dry Corn" :> dry) @@ ("Silage Corn" :> sil)

defaultProduction ==
    (Y2024 :> ProdRow(1200000, 2800000, 400000)) @@
    (Y2025 :> ProdRow(1300000, 3000000, 450000)) @@
    (Y2026 :> ProdRow(1400000, 3200000, 500000)) @@
    (Y2027 :> ProdRow(1500000, 3400000, 550000))

Hedge(e, y, ct, cm, q, d) ==
    [entity |-> e, cropYear |-> y, contractType |-> ct, contractMonth |-> cm,
     quantity |-> q, direction |-> d]

\* the entries of defaultHedgesObj (price, dateEntered and notes are carried
\* through every operation unchanged and are left out)
DefaultHedgeEntries ==
    << Hedge("Hog Finishing", Y2025, "Futures", "Jul", 500000, "Long"),
       Hedge("Hog Finishing", Y2025, "Options", "Sep", 300000, "Long"),
       Hedge("Feedlot", Y2025, "Futures", "May", 400000, "Long"),
       Hedge("Feedlot", Y2025, "HTA", "Jul", 250000, "Long"),
       Hedge("Farming", Y2025, "Futures", "Dec", 600000, "Short"),
       Hedge("Farming", Y2025, "Basis Contract", "Nov", 350000, "Short"),
       Hedge("Hog Finishing", Y2026, "Futures", "Mar", 200000, "Long"),
       Hedge("Farming", Y2026, "Futures", "Dec", 400000, "Short") >>

\* `id_${n}_${t}`: the text is one-to-one in the pair (n, t)
Id(n, t) == << n, t >>

\* defaultHedgesObj of a module loaded at time t: the entries keyed by the
\* first genId() results
defaultHedgesObj(t) ==
    [id \in {Id(n, t) : n \in DOMAIN DefaultHedgeEntries} |->
        DefaultHedgeEntries[id[1]]]

\* the defaultValue each useFirebaseState call of a client is given
DefaultValue(t, p) ==
    CASE p = "consumption" -> defaultConsumption
      [] p = "production"  -> defaultProduction
      [] p = "hedges"      -> defaultHedgesObj(t)
      [] p = "cropYears"   -> DEFAULT_CROP_YEARS
      [] p = "auditLog"    -> << >>

\* the debounce option each useFirebaseState call is given
Debounce(p) == IF p \in {"consumption", "production"} THEN 500 ELSE 0

----------------------------------------------------------------------------
(* The database (firebase/database): set(ref, v) replaces the value at the *)
(* path, and onValue(ref, cb) calls cb with the current value and again    *)
(* whenever the client's view of the path changes.  The database stores no *)
(* empty object or array: a path written with one holds no value (null).   *)
(* A client's own write hides older server values of the path from its     *)
(* callback.  A write reaches the server when set() is called; what is in  *)
(* flight are the snapshots the server sends to the subscribers.           *)

IsEmpty(v) == DOMAIN v = {}

\* what a path holds after set(ref, v)
Stored(v) == IF IsEmpty(v) THEN << >> ELSE << v >>

Write(p, v) == [path |-> p, val |-> v]
Snapshot(p, data) == [path |-> p, data |-> data]

\* a set() that leaves a path that holds a value as it is
RECURSIVE BackendAfterKeeps(_, _)
BackendAfterKeeps(b, ws) ==
    IF ws = << >> THEN b
    ELSE BackendAfterKeeps(IF b[Head(ws).path] = << >>
                           THEN [b EXCEPT ![Head(ws).path] = Stored(Head(ws).val)]
                           ELSE b,
                           Tail(ws))

\* the database after the writes ws, applied in order
RECURSIVE BackendAfter(_, _)
BackendAfter(b, ws) ==
    IF ws = << >> THEN b
    ELSE BackendAfter([b EXCEPT ![Head(ws).path] = Stored(Head(ws).val)], Tail(ws))

\* the snapshots the server sends to the other subscribers for the writes
\* ws: one for each write that changes the value of its path
RECURSIVE Changes(_, _)
Changes(b, ws) ==
    IF ws = << >> THEN << >>
    ELSE LET w == Head(ws)
             data == Stored(w.val)
             rest == Changes([b EXCEPT ![w.path] = data], Tail(ws))
         IN  IF data # b[w.path] THEN << Snapshot(w.path, data) >> \o rest ELSE rest

\* the snapshots of q without those of the paths ws writes: they are older
\* than the client's own writes and never reach its callback
RECURSIVE DropWritten(_, _)
DropWritten(q, ws) ==
    IF q = << >> THEN << >>
    ELSE IF \E i \in DOMAIN ws : ws[i].path = Head(q).path
    THEN DropWritten(Tail(q), ws)
    ELSE << Head(q) >> \o DropWritten(Tail(q), ws)

\* the order in which the component calls useFirebaseState
HookOrder == << "consumption", "production", "hedges", "cropYears", "auditLog" >>

----------------------------------------------------------------------------
(* useFirebaseState: the state of one client's five hook instances at the  *)
(* start of a handler; outbox collects the set() calls the handler makes   *)

Client(c) ==
    [value |-> value[c], timerRef |-> timerRef[c], timers |-> timers[c],
     timerSeq |-> timerSeq[c], outbox |-> << >>, idc |-> idc[c]]

\* the handler of client c called set() for the writes ws, and its inbox is
\* q otherwise
Transmit(c, ws, q) ==
    /\ sent' = [sent EXCEPT ![c] = ws]
    /\ backend' = BackendAfter(backend, ws)
    /\ inbox' = [d \in Clients |->
                    IF d = c THEN DropWritten(q, ws)
                    ELSE IF mounted[d] = "mounted" THEN inbox[d] \o Changes(backend, ws)
                    ELSE inbox[d]]

\* the handler of client c ends in hook state s, its inbox being q otherwise
Commit(c, s, q) ==
    /\ value' = [value EXCEPT ![c] = s.value]
    /\ timerRef' = [timerRef EXCEPT ![c] = s.timerRef]
    /\ timers' = [timers EXCEPT ![c] = s.timers]
    /\ timerSeq' = [timerSeq EXCEPT ![c] = s.timerSeq]
    /\ idc' = [idc EXCEPT ![c] = s.idc]
    /\ issued' = [issued EXCEPT ![c] =
                     @ \cup {Id(n, clock[c]) : n \in idc[c] + 1 .. s.idc}]
    /\ Transmit(c, s.outbox, q)

\* the value the onValue callback leaves in the value state
OnValueState(prev, data) == IF data # << >> THEN data[1] ELSE prev

\* set(fbRef, v): the client's own view of the path changes at once, and its
\* onValue callback runs with the value the path now holds
FbSet(s, p, v) ==
    [s EXCEPT !.outbox = Append(@, Write(p, v)),
              !.value[p] = OnValueState(@, Stored(v))]

\* clearTimeout(id): no effect when id names no active timeout
ClearTimeout(ts, id) == {t \in ts : t.id # id}

\* a restart that leaves a pending timeout of the path alone
RestartTimerKeepsFirst(s, p, next) ==
    IF \E t \in s.timers : t.path = p THEN s
    ELSE [s EXCEPT !.timers = @ \cup {[id |-> s.timerSeq + 1, path |-> p, next |-> next]},
                   !.timerRef[p] = s.timerSeq + 1,
                   !.timerSeq = @ + 1]

\* a restart without clearTimeout
RestartTimerStacks(s, p, next) ==
    [s EXCEPT !.timers = @ \cup {[id |-> s.timerSeq + 1, path |-> p, next |-> next]},
              !.timerRef[p] = s.timerSeq + 1,
              !.timerSeq = @ + 1]

\* clearTimeout(timerRef.current); timerRef.current = setTimeout(() => set(fbRef, next), debounce)
RestartTimer(s, p, next) ==
    [s EXCEPT !.timers = ClearTimeout(@, s.timerRef[p])
                            \cup {[id |-> s.timerSeq + 1, path |-> p, next |-> next]},
              !.timerRef[p] = s.timerSeq + 1,
              !.timerSeq = @ + 1]

\* a write part that debounces every collection
ScheduleWriteAlwaysDebounced(s, p, next) == RestartTimer(s, p, next)

\* the write part of setAndSync, for the value next the updater computed
ScheduleWrite(s, p, next) ==
    IF Debounce(p) > 0 THEN RestartTimer(s, p, next) ELSE FbSet(s, p, next)

\* a setAndSync that leaves the value state to the database
SetAndSyncNoLocal(s, p, next) == ScheduleWrite(s, p, next)

\* setAndSync(updater), with next = updater(prev)
SetAndSync(s, p, next) ==
    [ScheduleWrite(s, p, next) EXCEPT !.value[p] = next]

\* a callback that never seeds
OnValueSeedsNever(data, initial) == FALSE

\* a callback that seeds on every empty snapshot
OnValueSeedsAnyEmpty(data, initial) == data = << >>

\* the onValue callback seeds the path with the default value
OnValueSeeds(data, initial) == data = << >> /\ initial

\* a callback that leaves the loading state as it is
LoadingAfterCallbackKeeps(l) == l

\* the loading state after the onValue callback: setLoading(false)
LoadingAfterCallback(l) == FALSE

\* a cleanup that clears nothing
CleanupTimersNone(ts, refs) == ts

\* the timeouts left after the cleanup effects of the five hook instances
CleanupTimers(ts, refs) == {t \in ts : \A p \in Paths : t.id # refs[p]}

isLoading(c) == \E p \in Paths : loading[c][p]

----------------------------------------------------------------------------
(* Identifiers and the audit log *)

\* genId(): the identifier; the counter is s.idc + 1 afterwards
genId(s, now) == Id(s.idc + 1, now)

createAuditEntry(id, now, action, entity, details) ==
    [id |-> id, timestamp |-> now, user |-> "Current User",
     action |-> action, entity |-> entity, details |-> details]

\* an updater that puts the new entry last
AuditUpdaterAppends(prev, e) == prev \o << e >>

\* the updater of addAudit
AuditUpdater(prev, e) == << e >> \o prev

\* an addAudit that records nothing
addAuditNone(s, now, action, entity, details) == s

\* addAudit(action, entity, details)
addAudit(s, now, action, entity, details) ==
    LET s1 == [s EXCEPT !.idc = @ + 1]
        e  == createAuditEntry(genId(s, now), now, action, entity, details)
    IN  SetAndSync(s1, "auditLog", AuditUpdater(s1.value["auditLog"], e))

----------------------------------------------------------------------------
(* The hedge ledger *)

\* hedgesObjToArray(obj), as the set of its elements
hedgesObjToArray(obj) ==
    {[id |-> << id >>, entity |-> obj[id].entity, cropYear |-> obj[id].cropYear,
      contractType |-> obj[id].contractType, contractMonth |-> obj[id].contractMonth,
      quantity |-> obj[id].quantity, direction |-> obj[id].direction] : id \in DOMAIN obj}

\* filteredHedges for a selected year and an entity filter
filteredHedges(obj, year, filter) ==
    {h \in hedgesObjToArray(obj) :
        h.cropYear = year /\ (filter = "All" \/ h.entity = filter)}

\* the details text of a hedge audit entry
Summary(h) ==
    << h.direction, NumToText(h.quantity), h.contractType, h.contractMonth, h.cropYear >>

emptyHedge(year) ==
    [id |-> << >>, entity |-> "Hog Finishing", cropYear |-> year,
     contractType |-> "Futures", contractMonth |-> "Jul", quantity |-> << >>,
     direction |-> "Long"]

\* the form openEditHedge fills in for the rendered hedge h
EditForm(h) == [h EXCEPT !.quantity = NumToText(h.quantity)]

\* a saveHedge that accepts every number
FormValidNumeric(form) == ParseInt(form.quantity) # << >>

\* a saveHedge that accepts every number but 0
FormValidNonZero(form) ==
    LET qty == ParseInt(form.quantity) IN qty # << >> /\ qty[1] # 0

\* saveHedge accepts the form
FormValid(form) ==
    LET qty == ParseInt(form.quantity) IN qty # << >> /\ qty[1] # 0 /\ qty[1] > 0

\* the entry saveHedge stores: the form without its id, the quantity parsed
FormEntry(form) ==
    Hedge(form.entity, form.cropYear, form.contractType, form.contractMonth,
          ParseInt(form.quantity)[1], form.direction)

\* the key saveHedge stores the entry under
SaveKey(s, now, editing) == IF editing # << >> THEN editing[1] ELSE genId(s, now)

\* saveHedge() on a valid form
saveHedgeS(s, now, form, editing) ==
    LET entry == FormEntry(form)
        key   == SaveKey(s, now, editing)
        s1    == IF editing # << >> THEN s ELSE [s EXCEPT !.idc = @ + 1]
        s2    == SetAndSync(s1, "hedges", Put(s1.value["hedges"], key, entry))
    IN  addAudit(s2, now,
                 IF editing # << >> THEN "Hedge Modified" ELSE "Hedge Created",
                 entry.entity, Summary(entry))

\* an updater that also rewrites the records it keeps
DeleteUpdaterTouchesOthers(prev, id) ==
    [k \in DOMAIN prev \ {id} |-> [prev[k] EXCEPT !.quantity = @ + 1]]

\* the updater of deleteHedge
DeleteUpdater(prev, id) == Remove(prev, id)

\* deleteHedge(h), confirmed
deleteHedgeS(s, now, h) ==
    addAudit(SetAndSync(s, "hedges", DeleteUpdater(s.value["hedges"], h.id[1])),
             now, "Hedge Deleted", h.entity, Summary(h))

----------------------------------------------------------------------------
(* Consumption and production *)

\* parseInt(val) || 0
ParseIntOr0(text) ==
    LET n == ParseInt(text) IN IF n = << >> THEN 0 ELSE n[1]

\* an updater that does not spread the entity's previous row
ConsumptionUpdaterNewRow(prev, entity, year, v) ==
    Put(prev, entity, Put(<< >>, year, v))

\* the updater of updateConsumption
ConsumptionUpdater(prev, entity, year, v) ==
    Put(prev, entity, Put(Get(prev, entity, << >>), year, v))

updateConsumptionS(s, entity, year, text) ==
    SetAndSync(s, "consumption",
               ConsumptionUpdater(s.value["consumption"], entity, year, ParseIntOr0(text)))

\* the updater of updateProduction
ProductionUpdater(prev, year, type, v) ==
    Put(prev, year, Put(Get(prev, year, << >>), type, v))

\* an updateProduction that audits every keystroke
updateProductionSAudited(s, year, type, text) ==
    addAudit(SetAndSync(s, "production",
                        ProductionUpdater(s.value["production"], year, type,
                                          ParseIntOr0(text))),
             0, "Production Updated", "Farming", text)

updateProductionS(s, year, type, text) ==
    SetAndSync(s, "production",
               ProductionUpdater(s.value["production"], year, type, ParseIntOr0(text)))

----------------------------------------------------------------------------
(* Calculations *)

\* (consumption?.[entity]?.[y]) || 0
ConsOf(consumption, entity, y) == Get(Get(consumption, entity, << >>), y, 0)

\* Object.values(prod).reduce((s, v) => s + (v || 0), 0)
RECURSIVE SumValues(_)
SumValues(prod) ==
    IF DOMAIN prod = {} THEN 0
    ELSE LET k == CHOOSE x \in DOMAIN prod : TRUE
         IN  prod[k] + SumValues(Remove(prod, k))

\* production?.[y] || {}
ProdOf(production, y) == Get(production, y, << >>)

\* a filter that keeps the records of every year
YearHedgesAll(hedges, y) == hedges

\* hedges.filter(h => h.cropYear === y)
YearHedges(hedges, y) == {h \in hedges : h.cropYear = y}

\* a reducer that counts every record as Long
SignedQtyAllLong(h) == h.quantity

\* the term a record adds to a hedge sum: direction === "Long" ? qty : -qty
SignedQty(h) == IF h.direction = "Long" THEN h.quantity ELSE 0 - h.quantity

\* reduce((sum, h) => sum + ..., 0) over an array of records
RECURSIVE SumSigned(_)
SumSigned(hs) ==
    IF hs = {} THEN 0
    ELSE LET h == CHOOSE x \in hs : TRUE
         IN  SignedQty(h) + SumSigned(hs \ {h})

\* a hedgeByEntity that counts the records of every entity
hedgeByEntityAny(yearHedges, entity) == SumSigned(yearHedges)

hedgeByEntity(yearHedges, entity) ==
    SumSigned({h \in yearHedges : h.entity = entity})

\* Math.abs
Abs(n) == IF n < 0 THEN 0 - n ELSE n

\* physical > 0 ? Math.abs(hedge) / physical * 100 : 0, as the fraction
\* num / den
HedgePct(hedge, physical) ==
    IF physical > 0 THEN [num |-> Abs(hedge) * 100, den |-> physical]
    ELSE [num |-> 0, den |-> 1]

\* calc for the selected year y
calc(consumption, production, hedges, y) ==
    LET hogCons == ConsOf(consumption, "Hog Finishing", y)
        feedCons == ConsOf(consumption, "Feedlot", y)
        totalCons == hogCons + feedCons
        prod == ProdOf(production, y)
        totalProd == SumValues(prod)
        netCash == totalProd - totalCons
        yearHedges == YearHedges(hedges, y)
        hogHedge == hedgeByEntity(yearHedges, "Hog Finishing")
        feedHedge == hedgeByEntity(yearHedges, "Feedlot")
        farmHedge == hedgeByEntity(yearHedges, "Farming")
        totalHedge == hogHedge + feedHedge + farmHedge
        hogNetCash == 0 - hogCons
        feedNetCash == 0 - feedCons
        farmNetCash == totalProd
    IN  [hogCons |-> hogCons, feedCons |-> feedCons, totalCons |-> totalCons,
         totalProd |-> totalProd, netCash |-> netCash,
         hogHedge |-> hogHedge, feedHedge |-> feedHedge, farmHedge |-> farmHedge,
         totalHedge |-> totalHedge,
         hogNetCash |-> hogNetCash, feedNetCash |-> feedNetCash,
         farmNetCash |-> farmNetCash,
         hogNet |-> hogNetCash + hogHedge, feedNet |-> feedNetCash + feedHedge,
         farmNet |-> farmNetCash + farmHedge,
         netPosition |-> netCash + totalHedge,
         hogHedgePct |-> HedgePct(hogHedge, hogCons),
         feedHedgePct |-> HedgePct(feedHedge, feedCons),
         farmHedgePct |-> HedgePct(farmHedge, totalProd),
         yearHedges |-> yearHedges, prod |-> prod]

\* a series whose hedge position leaves out the Farming records
SeriesHedgeConsumers(yh) == SumSigned({h \in yh : h.entity # "Farming"})

\* the hedge position of a year in the series: every record of the year
SeriesHedge(yh) == SumSigned(yh)

\* exposureChartData
exposureChartData(consumption, production, hedges, cropYears) ==
    [i \in DOMAIN cropYears |->
        LET y == cropYears[i]
            hc == ConsOf(consumption, "Hog Finishing", y)
            fc == ConsOf(consumption, "Feedlot", y)
            p == SumValues(ProdOf(production, y))
            th == SeriesHedge(YearHedges(hedges, y))
        IN  [year |-> y, Production |-> p, Consumption |-> 0 - (hc + fc),
             NetCash |-> p - hc - fc, HedgePosition |-> th,
             NetPosition |-> (p - hc - fc) + th]]

----------------------------------------------------------------------------
(* Crop years *)

\* /^\d{4}$/.test(y)
IsYear(y) == Len(y) = 4 /\ \A i \in DOMAIN y : y[i] \in DigitChars

\* an addCropYear that takes any text not in the list
YearAcceptedAnyText(years, text) ==
    LET y == Trim(text) IN y # << >> /\ ~Includes(years, y)

\* an addCropYear that takes a year the list already has
YearAcceptedListed(years, text) ==
    LET y == Trim(text) IN y # << >> /\ IsYear(y)

\* addCropYear goes on with the text of the newYear field
YearAccepted(years, text) ==
    LET y == Trim(text) IN y # << >> /\ ~Includes(years, y) /\ IsYear(y)

\* addCropYear() on an accepted text
addCropYearS(s, now, text) ==
    LET y       == Trim(text)
        updated == Sort(s.value["cropYears"] \o << y >>)
        s1      == SetAndSync(s, "cropYears", updated)
    IN  addAudit(s1, now, "Year Added", "System", << "Crop year", y, "added" >>)

\* a removeCropYear that never refuses
CanRemoveAlways(years) == TRUE

\* removeCropYear goes on to ask for confirmation
CanRemove(years) == ~(Len(years) <= 1)

\* a removeCropYear that deletes the hedges of the year as well
removeCropYearSPurges(s, now, y) ==
    LET kept == {id \in DOMAIN s.value["hedges"] : s.value["hedges"][id].cropYear # y}
        s0 == SetAndSync(s, "hedges", [id \in kept |-> s.value["hedges"][id]])
        s1 == SetAndSync(s0, "cropYears", FilterOut(s.value["cropYears"], y))
    IN  addAudit(s1, now, "Year Removed", "System", << "Crop year", y, "removed" >>)

\* removeCropYear(y), confirmed
removeCropYearS(s, now, y) ==
    LET s1 == SetAndSync(s, "cropYears", FilterOut(s.value["cropYears"], y))
    IN  addAudit(s1, now, "Year Removed", "System", << "Crop year", y, "removed" >>)

\* a find that returns the last other year
FindOtherLast(years, y) ==
    LET others == FilterOut(years, y)
    IN  IF others = << >> THEN << >> ELSE << others[Len(others)] >>

\* cropYears.find(yr => yr !== y); << >> is undefined
RECURSIVE FindOther(_, _)
FindOther(years, y) ==
    IF years = << >> THEN << >>
    ELSE IF Head(years) # y THEN << Head(years) >>
    ELSE FindOther(Tail(years), y)

----------------------------------------------------------------------------
(* Initial states *)

\* a database no client has written to
FreshBackend == [p \in Paths |-> << >>]

\* the hook state of a session loaded at time t, before any notification
FreshClient(t) ==
    [value |-> [p \in Paths |-> DefaultValue(t, p)],
     timerRef |-> [p \in Paths |-> 0], timers |-> {}, timerSeq |-> 0,
     outbox |-> << >>, idc |-> Len(DefaultHedgeEntries)]

\* an earlier session, loaded at time 0 on a fresh database, deleted the
\* default hedges numbered in ns one after the other
RECURSIVE PriorSession(_)
PriorSession(ns) ==
    IF ns = << >> THEN FreshClient(0)
    ELSE LET s == PriorSession(SubSeq(ns, 1, Len(ns) - 1))
             n == ns[Len(ns)]
             h == CHOOSE x \in hedgesObjToArray(s.value["hedges"]) : x.id = << Id(n, 0) >>
         IN  deleteHedgeS(s, 0, h)

\* the database that session left behind: one hedge (Farming, 2025, Short)
PriorBackend ==
    LET s == PriorSession(<< 1, 2, 3, 4, 6, 7, 8 >>)
    IN  [p \in Paths |-> Stored(s.value[p])]

InitWith(b, clk) ==
    /\ backend = b
    /\ clock = clk
    /\ loadTime = clk
    /\ inbox = [c \in Clients |-> << >>]
    /\ sent = [c \in Clients |-> << >>]
    /\ mounted = [c \in Clients |-> "init"]
    /\ value = [c \in Clients |-> FreshClient(clk[c]).value]
    /\ loading = [c \in Clients |-> [p \in Paths |-> TRUE]]
    /\ isInitialLoad = [c \in Clients |-> [p \in Paths |-> TRUE]]
    /\ timerRef = [c \in Clients |-> FreshClient(clk[c]).timerRef]
    /\ timers = [c \in Clients |-> {}]
    /\ timerSeq = [c \in Clients |-> 0]
    /\ idc = [c \in Clients |-> FreshClient(clk[c]).idc]
    /\ selectedYear = [c \in Clients |-> Y2025]
    /\ editingHedge = [c \in Clients |-> << >>]
    /\ hedgeForm = [c \in Clients |-> emptyHedge(Y2025)]
    /\ hedgeModalOpen = [c \in Clients |-> FALSE]
    /\ ops = 0
    /\ burst = [c \in Clients |-> [p \in Paths |-> [n |-> 0, next |-> << >>, fired |-> 0]]]
    /\ edit = [c \in Clients |-> << >>]
    /\ done = [c \in Clients |-> [op |-> "none", seq |-> 0, muts |-> {}]]
    /\ note = [c \in Clients |-> << >>]
    /\ issued = [c \in Clients |-> DOMAIN defaultHedgesObj(clk[c])]

\* two sessions open the dashboard on a database an earlier session has used
Init == InitWith(PriorBackend, [c \in Clients |-> 0])

\* the same two sessions once each has subscribed and received the first
\* snapshot of every path
InitLoadedOn(b) ==
    /\ backend = b
    /\ clock = [c \in Clients |-> 0]
    /\ loadTime = [c \in Clients |-> 0]
    /\ inbox = [c \in Clients |-> << >>]
    /\ sent = [c \in Clients |-> << >>]
    /\ mounted = [c \in Clients |-> "mounted"]
    /\ value = [c \in Clients |->
                  [p \in Paths |-> OnValueState(FreshClient(0).value[p], b[p])]]
    /\ loading = [c \in Clients |-> [p \in Paths |-> FALSE]]
    /\ isInitialLoad = [c \in Clients |-> [p \in Paths |-> FALSE]]
    /\ timerRef = [c \in Clients |-> FreshClient(0).timerRef]
    /\ timers = [c \in Clients |-> {}]
    /\ timerSeq = [c \in Clients |-> 0]
    /\ idc = [c \in Clients |-> FreshClient(0).idc]
    /\ selectedYear = [c \in Clients |-> Y2025]
    /\ editingHedge = [c \in Clients |-> << >>]
    /\ hedgeForm = [c \in Clients |-> emptyHedge(Y2025)]
    /\ hedgeModalOpen = [c \in Clients |-> FALSE]
    /\ ops = 0
    /\ burst = [c \in Clients |-> [p \in Paths |-> [n |-> 0, next |-> << >>, fired |-> 0]]]
    /\ edit = [c \in Clients |-> << >>]
    /\ done = [c \in Clients |-> [op |-> "none", seq |-> 0, muts |-> {}]]
    /\ note = [c \in Clients |->
                 << [path |-> HookOrder[Len(HookOrder)],
                     data |-> b[HookOrder[Len(HookOrder)]],
                     first |-> TRUE] >>]
    /\ issued = [c \in Clients |-> DOMAIN defaultHedgesObj(0)]

InitLoaded == InitLoadedOn(PriorBackend)

\* the database had the earlier session left two hedges (both Farming, 2025,
\* Short)
TwoHedgeBackend ==
    LET s == PriorSession(<< 1, 2, 3, 4, 7, 8 >>)
    IN  [p \in Paths |-> Stored(s.value[p])]

\* two loaded sessions on that database
InitTwoHedges == InitLoadedOn(TwoHedgeBackend)

\* the database had the earlier session, after its deletes, removed the crop
\* years 2024 and 2027
TwoYearBackend ==
    LET s == removeCropYearS(
                 removeCropYearS(PriorSession(<< 1, 2, 3, 4, 6, 7, 8 >>), 0, Y2024),
                 0, Y2027)
    IN  [p \in Paths |-> Stored(s.value[p])]

\* two loaded sessions on that database
InitTwoYears == InitLoadedOn(TwoYearBackend)

\* an earlier session that, after deleting the default hedges numbered in ns,
\* set the 2025 figures to Hog Finishing 2,600,000 and Dry Corn 3,000,000 and
\* every other 2025 figure to 0
DeskSession(ns) ==
    updateProductionS(
        updateProductionS(
            updateConsumptionS(PriorSession(ns), "Feedlot", Y2025, << "0" >>),
            Y2025, "High Moisture Corn", << "0" >>),
        Y2025, "Silage Corn", << "0" >>)

\* the database with those 2025 figures and no 2025 hedge
ScenarioBackend ==
    [p \in Paths |-> Stored(DeskSession(<< 1, 2, 3, 4, 5, 6 >>).value[p])]

\* the databases of the position desk: the seeded defaults, and the 2025
\* figures above with one 2025 hedge (Farming, Short, 600,000)
DeskBackends ==
    { [p \in Paths |-> Stored(FreshClient(0).value[p])],
      [p \in Paths |-> Stored(DeskSession(<< 1, 2, 3, 4, 6 >>).value[p])] }

\* two loaded sessions on one of those databases
InitDesk == \E b \in DeskBackends : InitLoadedOn(b)

\* two loaded sessions on the database without a 2025 hedge
InitScenario == InitLoadedOn(ScenarioBackend)

\* two sessions open the dashboard on a fresh database
InitFresh == \E clk \in [Clients -> 0 .. MaxClock] : InitWith(FreshBackend, clk)

uiVars == << selectedYear, editingHedge, hedgeForm, hedgeModalOpen >>
histVars == << burst, edit, done, note, issued >>

----------------------------------------------------------------------------
(* Steps of the database and of the hook *)

\* the onValue effect: the client subscribes to its five paths and is sent
\* the current value of each
Subscribe(c) ==
    /\ mounted[c] = "init"
    /\ mounted' = [mounted EXCEPT ![c] = "mounted"]
    /\ inbox' = [inbox EXCEPT ![c] =
                    [i \in DOMAIN HookOrder |-> Snapshot(HookOrder[i], backend[HookOrder[i]])]]
    /\ UNCHANGED << backend, sent, loadTime, value, loading, isInitialLoad,
                    timerRef, timers, timerSeq, idc, clock, ops >>
    /\ UNCHANGED uiVars
    /\ UNCHANGED histVars

\* the oldest snapshot sent to client c arrives and the callback of onValue
\* runs
Deliver(c) ==
    /\ mounted[c] = "mounted"
    /\ inbox[c] # << >>
    /\ LET n == Head(inbox[c])
           p == n.path
           seeds == OnValueSeeds(n.data, isInitialLoad[c][p])
           s0 == [Client(c) EXCEPT !.value[p] = OnValueState(@, n.data)]
       IN  /\ Commit(c, IF seeds THEN FbSet(s0, p, DefaultValue(loadTime[c], p)) ELSE s0,
                     Tail(inbox[c]))
           /\ isInitialLoad' = [isInitialLoad EXCEPT ![c][p] = FALSE]
           /\ loading' = [loading EXCEPT ![c][p] = LoadingAfterCallback(@)]
           /\ note' = [note EXCEPT ![c] =
                          << [path |-> p, data |-> n.data,
                              first |-> isInitialLoad[c][p]] >>]
    /\ UNCHANGED << mounted, loadTime, clock, ops >>
    /\ UNCHANGED uiVars
    /\ UNCHANGED << burst, edit, done >>

\* a debounce timeout of client c fires: set(fbRef, next)
TimerFire(c) ==
    \E t \in timers[c] :
        /\ Commit(c, FbSet([Client(c) EXCEPT !.timers = @ \ {t}], t.path, t.next),
                  inbox[c])
        /\ burst' = [burst EXCEPT ![c][t.path] =
                        [n |-> 0, next |-> << >>, fired |-> @.n]]
        /\ UNCHANGED << mounted, loadTime, loading, isInitialLoad, clock, ops,
                        edit, done, note >>
        /\ UNCHANGED uiVars

\* the component unmounts: unsubscribe() and clearTimeout(timerRef.current)
\* in every hook instance
Unmount(c) ==
    /\ mounted[c] = "mounted"
    /\ ops < MaxOps
    /\ ops' = ops + 1
    /\ mounted' = [mounted EXCEPT ![c] = "unmounted"]
    /\ inbox' = [inbox EXCEPT ![c] = << >>]
    /\ timers' = [timers EXCEPT ![c] = CleanupTimers(@, timerRef[c])]
    /\ done' = [done EXCEPT ![c] = [op |-> "unmount", seq |-> ops + 1, muts |-> {},
                                      pending |-> {t.path : t \in timers[c]}]]
    /\ UNCHANGED << backend, sent, loadTime, value, loading, isInitialLoad,
                    timerRef, timerSeq, idc, clock >>
    /\ UNCHANGED uiVars
    /\ UNCHANGED << burst, edit, note, issued >>

\* the wall clock of client c advances
Tick(c) ==
    /\ clock[c] < MaxClock
    /\ clock' = [clock EXCEPT ![c] = @ + 1]
    /\ UNCHANGED << backend, inbox, sent, mounted, loadTime, value, loading,
                    isInitialLoad, timerRef, timers, timerSeq, idc, ops >>
    /\ UNCHANGED uiVars
    /\ UNCHANGED histVars

----------------------------------------------------------------------------
(* Operations of the dashboard *)

\* a dashboard that is rendered while collections are loading
CanActWhileLoading(c) == mounted[c] = "mounted" /\ ops < MaxOps

\* the dashboard is rendered (not the loading screen) and takes input
CanAct(c) == mounted[c] = "mounted" /\ ~isLoading(c) /\ ops < MaxOps

\* the hedges the tables of the selected year show
Rendered(c) == filteredHedges(value[c]["hedges"], selectedYear[c], "All")

updateConsumption(c, entity, year, text) ==
    /\ CanAct(c)
    /\ LET s == updateConsumptionS(Client(c), entity, year, text)
       IN  /\ Commit(c, s, inbox[c])
           /\ burst' = [burst EXCEPT ![c]["consumption"] =
                           [n |-> @.n + 1, next |-> << s.value["consumption"] >>,
                            fired |-> @.fired]]
    /\ done' = [done EXCEPT ![c] =
                   [op |-> "updateConsumption", seq |-> ops + 1, muts |-> {"consumption"},
                    entity |-> entity, year |-> year, text |-> text,
                    view |-> updateConsumptionS(Client(c), entity, year, text).value["consumption"],
                    base |-> value[c]["consumption"],
                    changed |-> ConsOf(value[c]["consumption"], entity, year) # ParseIntOr0(text),
                    overlap |-> {done[d].seq : d \in {x \in Clients \ {c} :
                                   \E t \in timers[x] : t.path = "consumption"}}]]
    /\ ops' = ops + 1
    /\ UNCHANGED << mounted, loadTime, loading, isInitialLoad, clock, edit, note >>
    /\ UNCHANGED uiVars

updateProduction(c, year, type, text) ==
    /\ CanAct(c)
    /\ LET s == updateProductionS(Client(c), year, type, text)
       IN  /\ Commit(c, s, inbox[c])
           /\ burst' = [burst EXCEPT ![c]["production"] =
                           [n |-> @.n + 1, next |-> << s.value["production"] >>,
                            fired |-> @.fired]]
    /\ done' = [done EXCEPT ![c] =
                   [op |-> "updateProduction", seq |-> ops + 1, muts |-> {"production"},
                    type |-> type, year |-> year, text |-> text,
                    view |-> updateProductionS(Client(c), year, type, text).value["production"],
                    base |-> value[c]["production"],
                    changed |-> Get(ProdOf(value[c]["production"], year), type, 0)
                                    # ParseIntOr0(text),
                    overlap |-> {done[d].seq : d \in {x \in Clients \ {c} :
                                   \E t \in timers[x] : t.path = "production"}}]]
    /\ ops' = ops + 1
    /\ UNCHANGED << mounted, loadTime, loading, isInitialLoad, clock, edit, note >>
    /\ UNCHANGED uiVars

\* the crop-year selector of the header: setSelectedYear(y) for a listed year
setSelectedYear(c, y) ==
    /\ mounted[c] = "mounted"
    /\ ~isLoading(c)
    /\ Includes(value[c]["cropYears"], y)
    /\ selectedYear[c] # y
    /\ selectedYear' = [selectedYear EXCEPT ![c] = y]
    /\ UNCHANGED << backend, inbox, sent, mounted, loadTime, value, loading,
                    isInitialLoad, timerRef, timers, timerSeq, idc, clock,
                    editingHedge, hedgeForm, hedgeModalOpen, ops >>
    /\ UNCHANGED histVars

openNewHedge(c) ==
    /\ CanAct(c)
    /\ ~hedgeModalOpen[c]
    /\ editingHedge' = [editingHedge EXCEPT ![c] = << >>]
    /\ hedgeForm' = [hedgeForm EXCEPT ![c] = emptyHedge(selectedYear[c])]
    /\ hedgeModalOpen' = [hedgeModalOpen EXCEPT ![c] = TRUE]
    /\ UNCHANGED << backend, inbox, sent, mounted, loadTime, value, loading,
                    isInitialLoad, timerRef, timers, timerSeq, idc, clock,
                    selectedYear, ops >>
    /\ UNCHANGED histVars

openEditHedge(c, h) ==
    /\ CanAct(c)
    /\ ~hedgeModalOpen[c]
    /\ h \in Rendered(c)
    /\ editingHedge' = [editingHedge EXCEPT ![c] = h.id]
    /\ hedgeForm' = [hedgeForm EXCEPT ![c] = EditForm(h)]
    /\ hedgeModalOpen' = [hedgeModalOpen EXCEPT ![c] = TRUE]
    /\ UNCHANGED << backend, inbox, sent, mounted, loadTime, value, loading,
                    isInitialLoad, timerRef, timers, timerSeq, idc, clock,
                    selectedYear, ops >>
    /\ UNCHANGED histVars

\* setHedgeForm(p => ({ ...p, [field]: val })) from a field of the modal
setHedgeForm(c, field, val) ==
    /\ mounted[c] = "mounted"
    /\ hedgeModalOpen[c]
    /\ hedgeForm[c][field] # val
    /\ hedgeForm' = [hedgeForm EXCEPT ![c][field] = val]
    /\ UNCHANGED << backend, inbox, sent, mounted, loadTime, value, loading,
                    isInitialLoad, timerRef, timers, timerSeq, idc, clock,
                    selectedYear, editingHedge, hedgeModalOpen, ops >>
    /\ UNCHANGED histVars

saveHedge(c) ==
    /\ mounted[c] = "mounted"
    /\ hedgeModalOpen[c]
    /\ IF FormValid(hedgeForm[c])
       THEN /\ ops < MaxOps
            /\ Commit(c, saveHedgeS(Client(c), clock[c], hedgeForm[c], editingHedge[c]),
                      inbox[c])
            /\ hedgeModalOpen' = [hedgeModalOpen EXCEPT ![c] = FALSE]
            /\ ops' = ops + 1
            /\ edit' = [edit EXCEPT ![c] =
                          << [kind |-> IF editingHedge[c] # << >> THEN "update" ELSE "create",
                              id |-> SaveKey(Client(c), clock[c], editingHedge[c]),
                              entry |-> FormEntry(hedgeForm[c]),
                              fresh |-> SaveKey(Client(c), clock[c], editingHedge[c])
                                            \notin DOMAIN value[c]["hedges"],
                              behind |-> \E i \in DOMAIN inbox[c] :
                                            inbox[c][i].path = "hedges"] >>]
            /\ done' = [done EXCEPT ![c] =
                          [op |-> "saveHedge", seq |-> ops + 1, muts |-> {"hedges", "auditLog"},
                           valid |-> TRUE]]
       ELSE /\ UNCHANGED << value, timerRef, timers, timerSeq, idc, backend, inbox,
                            hedgeModalOpen, ops, edit, issued >>
            /\ sent' = [sent EXCEPT ![c] = << >>]
            /\ done' = [done EXCEPT ![c] =
                          [op |-> "saveHedge", seq |-> ops, muts |-> {}, valid |-> FALSE]]
    /\ UNCHANGED << mounted, loadTime, loading, isInitialLoad, clock,
                    selectedYear, editingHedge, hedgeForm, burst, note >>

\* a confirm() that is taken as accepted whatever the answer
ConfirmAlways(ok) == TRUE

\* confirm(message): the handler goes on when the answer is OK
Confirm(ok) == ok

\* deleteHedge(h) for a rendered hedge h; ok is the answer to confirm()
deleteHedge(c, h, ok) ==
    /\ CanAct(c)
    /\ ~hedgeModalOpen[c]
    /\ h \in Rendered(c)
    /\ IF Confirm(ok)
       THEN /\ Commit(c, deleteHedgeS(Client(c), clock[c], h), inbox[c])
            /\ ops' = ops + 1
            /\ edit' = [edit EXCEPT ![c] =
                          << [kind |-> "delete", id |-> h.id[1], entry |-> << >>,
                              fresh |-> FALSE,
                              behind |-> \E i \in DOMAIN inbox[c] :
                                            inbox[c][i].path = "hedges"] >>]
            /\ done' = [done EXCEPT ![c] =
                          [op |-> "deleteHedge", seq |-> ops + 1, muts |-> {"hedges", "auditLog"},
                           ok |-> ok, id |-> h.id[1]]]
       ELSE /\ UNCHANGED << value, timerRef, timers, timerSeq, idc, backend, inbox,
                            ops, edit, issued >>
            /\ sent' = [sent EXCEPT ![c] = << >>]
            /\ done' = [done EXCEPT ![c] =
                          [op |-> "deleteHedge", seq |-> ops, muts |-> {}, ok |-> ok,
                           id |-> h.id[1]]]
    /\ UNCHANGED << mounted, loadTime, loading, isInitialLoad, clock, burst, note >>
    /\ UNCHANGED uiVars

\* addCropYear() with text in the newYear field
addCropYear(c, text) ==
    /\ CanAct(c)
    /\ IF YearAccepted(value[c]["cropYears"], text)
       THEN /\ Commit(c, addCropYearS(Client(c), clock[c], text), inbox[c])
            /\ ops' = ops + 1
            /\ done' = [done EXCEPT ![c] =
                          [op |-> "addCropYear", seq |-> ops + 1,
                           muts |-> {"cropYears", "auditLog"}, text |-> text,
                           valid |-> TRUE]]
       ELSE /\ UNCHANGED << value, timerRef, timers, timerSeq, idc, backend, inbox,
                            ops, issued >>
            /\ sent' = [sent EXCEPT ![c] = << >>]
            /\ done' = [done EXCEPT ![c] =
                          [op |-> "addCropYear", seq |-> ops, muts |-> {}, text |-> text,
                           valid |-> FALSE]]
    /\ UNCHANGED << mounted, loadTime, loading, isInitialLoad, clock, burst, edit, note >>
    /\ UNCHANGED uiVars

\* removeCropYear(y) for a listed year y; ok is the answer to confirm()
removeCropYear(c, y, ok) ==
    /\ CanAct(c)
    /\ Includes(value[c]["cropYears"], y)
    /\ IF CanRemove(value[c]["cropYears"]) /\ Confirm(ok)
       THEN /\ Commit(c, removeCropYearS(Client(c), clock[c], y), inbox[c])
            /\ ops' = ops + 1
            /\ selectedYear' =
                  [selectedYear EXCEPT ![c] =
                      IF @ = y
                      THEN LET o == FindOther(value[c]["cropYears"], y)
                           IN  IF o = << >> THEN << "undefined" >> ELSE o[1]
                      ELSE @]
            /\ done' = [done EXCEPT ![c] =
                          [op |-> "removeCropYear", seq |-> ops + 1,
                           muts |-> {"cropYears", "auditLog"}, year |-> y,
                           valid |-> TRUE, ok |-> ok]]
       ELSE /\ UNCHANGED << value, timerRef, timers, timerSeq, idc, backend, inbox,
                            ops, issued, selectedYear >>
            /\ sent' = [sent EXCEPT ![c] = << >>]
            /\ done' = [done EXCEPT ![c] =
                          [op |-> "removeCropYear", seq |-> ops, muts |-> {}, year |-> y,
                           valid |-> FALSE, ok |-> ok]]
    /\ UNCHANGED << mounted, loadTime, loading, isInitialLoad, clock, burst, edit, note,
                    editingHedge, hedgeForm, hedgeModalOpen >>

----------------------------------------------------------------------------
(* Specifications *)

\* the steps of the network and the hook
SyncStep ==
    \/ \E c \in Clients : Subscribe(c)
    \/ \E c \in Clients : Deliver(c)
    \/ \E c \in Clients : TimerFire(c)

\* inputs of the consumption fields
ConsEntities == {"Hog Finishing"}
ConsTexts == { << "7" >>, << "-", "5" >> }

\* the rendered hedges of all clients
AllRendered == UNION {Rendered(c) : c \in Clients}

\* synchronisation: a debounced collection, a keyed one, teardown
Next ==
    \/ SyncStep
    \/ \E c \in Clients : Unmount(c)
    \/ \E c \in Clients, e \in ConsEntities, t \in ConsTexts :
          updateConsumption(c, e, selectedYear[c], t)
    \/ \E c \in Clients, h \in AllRendered, ok \in BOOLEAN : deleteHedge(c, h, ok)

Spec == Init /\ [][Next]_vars

\* first load: the database is empty and the sessions seed it
NextLoad ==
    \/ SyncStep
    \/ \E c \in Clients, e \in ConsEntities, t \in ConsTexts :
          updateConsumption(c, e, selectedYear[c], t)

SpecLoad == InitFresh /\ [][NextLoad]_vars

\* inputs of the hedge form
FormInputs == { << "quantity", << "7" >> >> }

\* the hedge ledger: create, edit and delete by two sessions
NextLedger ==
    \/ \E c \in Clients : Deliver(c)
    \/ \E c \in Clients : Tick(c)
    \/ \E c \in Clients : openNewHedge(c)
    \/ \E c \in Clients, h \in AllRendered : openEditHedge(c, h)
    \/ \E c \in Clients, in \in FormInputs : setHedgeForm(c, in[1], in[2])
    \/ \E c \in Clients : saveHedge(c)
    \/ \E c \in Clients, h \in AllRendered : deleteHedge(c, h, TRUE)

SpecLedger == InitLoaded /\ [][NextLedger]_vars

\* editing and deleting the records of a ledger of two
NextEdit ==
    \/ \E c \in Clients : Deliver(c)
    \/ \E c \in Clients, h \in AllRendered : openEditHedge(c, h)
    \/ \E c \in Clients, in \in FormInputs : setHedgeForm(c, in[1], in[2])
    \/ \E c \in Clients : saveHedge(c)
    \/ \E c \in Clients, h \in AllRendered : deleteHedge(c, h, TRUE)

SpecEdit == InitTwoHedges /\ [][NextEdit]_vars

\* texts typed into the newYear field
YearTexts == { << " ", "2", "0", "2", "4" >>, Y2026, Y2027, << "2", "4" >>, << " " >> }

\* the crop years any client lists
AllYears == UNION {{value[c]["cropYears"][i] : i \in DOMAIN value[c]["cropYears"]} : c \in Clients}

\* the crop-year manager: adding and removing years by two sessions
NextYears ==
    \/ \E c \in Clients : Deliver(c)
    \/ \E c \in Clients, t \in YearTexts : addCropYear(c, t)
    \/ \E c \in Clients, y \in AllYears, ok \in BOOLEAN : removeCropYear(c, y, ok)

SpecYears == InitTwoYears /\ [][NextYears]_vars

\* texts typed into the newYear field in the audited run
AuditYearTexts == { Y2027, << "2", "4" >> }

\* every operation that is audited: the hedge form, deletes, crop years
NextAudit ==
    \/ \E c \in Clients : Deliver(c)
    \/ \E c \in Clients : openNewHedge(c)
    \/ \E c \in Clients, h \in AllRendered : openEditHedge(c, h)
    \/ \E c \in Clients, in \in FormInputs : setHedgeForm(c, in[1], in[2])
    \/ \E c \in Clients : saveHedge(c)
    \/ \E c \in Clients, h \in AllRendered : deleteHedge(c, h, TRUE)
    \/ \E c \in Clients, t \in AuditYearTexts : addCropYear(c, t)
    \/ \E c \in Clients, y \in AllYears : removeCropYear(c, y, TRUE)

SpecAudit == InitTwoYears /\ [][NextAudit]_vars

\* texts typed into the quantity field of the hedge form
QtyTexts == { << "7" >>, << "0" >>, << "-", "5" >>, << "x" >> }

\* the hedge form: creating and editing with good and bad quantities
NextForm ==
    \/ \E c \in Clients : Deliver(c)
    \/ \E c \in Clients : openNewHedge(c)
    \/ \E c \in Clients, h \in AllRendered : openEditHedge(c, h)
    \/ \E c \in Clients, t \in QtyTexts : setHedgeForm(c, "quantity", t)
    \/ \E c \in Clients : saveHedge(c)

SpecForm == InitLoaded /\ [][NextForm]_vars

\* inputs of the position desk
DeskTexts == { << "0" >>, << "-", "5" >> }
DeskFormInputs ==
    { << "entity", "Farming" >>, << "direction", "Short" >>,
      << "quantity", << "6", "0", "0", "0", "0", "0" >> >> }

DeskYears == { Y2025, Y2028 }

\* the position desk: the figures of a year are edited, a year is added and
\* selected
NextDesk ==
    \/ \E c \in Clients : Deliver(c)
    \/ \E c \in Clients : TimerFire(c)
    \/ \E c \in Clients, y \in DeskYears : setSelectedYear(c, y)
    \/ \E c \in Clients, t \in DeskTexts :
          updateConsumption(c, "Hog Finishing", selectedYear[c], t)
    \/ \E c \in Clients, t \in DeskTexts :
          updateProduction(c, selectedYear[c], "Dry Corn", t)
    \/ \E c \in Clients : addCropYear(c, Y2028)

SpecDesk == InitDesk /\ [][NextDesk]_vars

\* inputs of the figure tables
InputEntities == { "Hog Finishing", "Feedlot" }
InputTypes == { "Dry Corn", "Silage Corn" }
InputTexts == { << "7" >> }

\* two sessions edit the figures of the selected year
NextInputs ==
    \/ \E c \in Clients : Deliver(c)
    \/ \E c \in Clients : TimerFire(c)
    \/ \E c \in Clients, e \in InputEntities, t \in InputTexts :
          updateConsumption(c, e, selectedYear[c], t)
    \/ \E c \in Clients, ty \in InputTypes, t \in InputTexts :
          updateProduction(c, selectedYear[c], ty, t)

SpecInputs == InitDesk /\ [][NextInputs]_vars

\* the operations that ask for confirmation, accepted or declined
NextConfirm ==
    \/ \E c \in Clients : Deliver(c)
    \/ \E c \in Clients, y \in AllYears : setSelectedYear(c, y)
    \/ \E c \in Clients, h \in AllRendered, ok \in BOOLEAN : deleteHedge(c, h, ok)
    \/ \E c \in Clients, y \in AllYears, ok \in BOOLEAN : removeCropYear(c, y, ok)

SpecConfirm == InitTwoYears /\ [][NextConfirm]_vars

\* two sessions open the dashboard, on a fresh database or on one an earlier
\* session has used, and delete hedges
InitSeed == InitFresh \/ Init

NextSeed ==
    \/ \E c \in Clients : Subscribe(c)
    \/ \E c \in Clients : Deliver(c)
    \/ \E c \in Clients, h \in AllRendered : deleteHedge(c, h, TRUE)

SpecSeed == InitSeed /\ [][NextSeed]_vars

\* a hedge is entered at the desk with the 2025 figures
NextScenario ==
    \/ \E c \in Clients : Deliver(c)
    \/ \E c \in Clients : openNewHedge(c)
    \/ \E c \in Clients, in \in DeskFormInputs : setHedgeForm(c, in[1], in[2])
    \/ \E c \in Clients : saveHedge(c)

SpecScenario == InitScenario /\ [][NextScenario]_vars

----------------------------------------------------------------------------
(* Properties of the synchronised store *)

\* the writes of path p among ws
RECURSIVE WritesOf(_, _)
WritesOf(ws, p) ==
    IF ws = << >> THEN << >>
    ELSE IF Head(ws).path = p THEN << Head(ws) >> \o WritesOf(Tail(ws), p)
    ELSE WritesOf(Tail(ws), p)

\* the timeouts of client c that will write path p
PendingOf(ts, p) == {t \in ts : t.path = p}

\* the user of client c performed an operation of the dashboard in this step
ActStep(c) == done'[c] # done[c] /\ done'[c].op # "unmount"

\* the onValue callback of client c ran in this step
DeliverStep(c) ==
    /\ ops' = ops
    /\ timers' = timers
    /\ inbox[c] # << >>
    /\ inbox'[c] = DropWritten(Tail(inbox[c]), sent'[c])

\* a debounce timeout of client c fired in this step
FireStep(c) == mounted'[c] = mounted[c] /\ timers'[c] # timers[c] /\ timers'[c] \subseteq timers[c]

\* C1: on a debounced collection the mutate calls made while a write is
\* pending write nothing; while they go on exactly one write is pending and
\* it carries the value the latest call computed; when the timeout fires
\* that one value is written, once
DebounceCoalesces ==
    [][\A c \in Clients : \A p \in Paths : Debounce(p) > 0 =>
          /\ (burst'[c][p].n >= 1 /\ mounted'[c] = "mounted") =>
                \E t \in timers'[c] :
                    /\ PendingOf(timers'[c], p) = {t}
                    /\ << t.next >> = burst'[c][p].next
          /\ burst'[c][p].n > burst[c][p].n => WritesOf(sent'[c], p) = << >>
          /\ (FireStep(c) /\ burst[c][p].n >= 1 /\ burst'[c][p].n = 0) =>
                /\ sent'[c] = << Write(p, burst[c][p].next[1]) >>
                /\ PendingOf(timers'[c], p) = {}
          /\ (burst[c][p].n = 0 /\ burst'[c][p].n = 0) => PendingOf(timers'[c], p) = {}
      ]_vars

\* a burst of two or more calls has ended in one write
DebounceCoalescesWitness ==
    \E c \in Clients :
        /\ burst[c]["consumption"].n = 0
        /\ burst[c]["consumption"].fired >= 2
        /\ Len(sent[c]) = 1
        /\ sent[c][1].path = "consumption"
        /\ sent[c][1].val = value[c]["consumption"]

\* C2: on a collection without debounce every mutate call of an operation
\* calls set() once, in the same step, with the value it computed
ImmediateWrites ==
    [][\A c \in Clients : ActStep(c) =>
          \A p \in Paths : Debounce(p) = 0 =>
              WritesOf(sent'[c], p) =
                  IF p \in done'[c].muts THEN << Write(p, value'[c][p]) >> ELSE << >>
      ]_vars

\* a confirmed deleteHedge has written the ledger and the audit log
ImmediateWritesWitness ==
    \E c \in Clients :
        /\ done[c].op = "deleteHedge"
        /\ done[c].ok
        /\ Len(sent[c]) = 2
        /\ sent[c][1] = Write("hedges", value[c]["hedges"])
        /\ sent[c][2] = Write("auditLog", value[c]["auditLog"])

\* C7: right after a mutation the local value is the updater applied to the
\* previous local value
OptimisticUpdate ==
    [][\A c \in Clients : ActStep(c) =>
          /\ done'[c].op = "updateConsumption" =>
                value'[c]["consumption"] =
                    ConsumptionUpdater(value[c]["consumption"], done'[c].entity,
                                       done'[c].year, ParseIntOr0(done'[c].text))
          /\ (done'[c].op = "deleteHedge" /\ done'[c].ok) =>
                /\ value'[c]["hedges"] = DeleteUpdater(value[c]["hedges"], done'[c].id)
                /\ Len(value'[c]["auditLog"]) = Len(value[c]["auditLog"]) + 1
                /\ Tail(value'[c]["auditLog"]) = value[c]["auditLog"]
      ]_vars

\* a mutation was made while a write of the collection was pending
OptimisticUpdateWitness ==
    \E c \in Clients :
        /\ done[c].op = "updateConsumption"
        /\ burst[c]["consumption"].n >= 2
        /\ << value[c]["consumption"] >> = burst[c]["consumption"].next

\* C8: teardown leaves no timeout of the client active, and a client that
\* is torn down calls set() no more
TeardownCancels ==
    [][\A c \in Clients : mounted'[c] = "unmounted" =>
          /\ timers'[c] = {}
          /\ mounted[c] = "unmounted" => sent'[c] = sent[c]
      ]_vars

\* a client was torn down while a debounced write was pending
TeardownCancelsWitness ==
    \E c \in Clients :
        /\ mounted[c] = "unmounted"
        /\ done[c].op = "unmount"
        /\ "consumption" \in done[c].pending
        /\ sent[c] = << >>

\* C9: a hook instance never has two timeouts pending, and the one pending
\* is the one timerRef names
AtMostOnePending ==
    \A c \in Clients : \A p \in Paths :
        /\ Cardinality(PendingOf(timers[c], p)) <= 1
        /\ \A t \in PendingOf(timers[c], p) : timerRef[c][p] = t.id

\* a mutate call was made while a write was pending
AtMostOnePendingWitness ==
    \E c \in Clients :
        /\ burst[c]["consumption"].n >= 2
        /\ Cardinality(PendingOf(timers[c], "consumption")) = 1

\* nothing is pending or in flight: no timeout is active and every snapshot
\* has been delivered
Quiescent == \A c \in Clients : inbox[c] = << >> /\ timers[c] = {}

\* C4: once nothing is pending or in flight, the local value of every
\* subscribed client is the value the database holds at the path
ClientsConsistent ==
    Quiescent =>
        \A c \in Clients : mounted[c] = "mounted" =>
            \A p \in Paths : Stored(value[c][p]) = backend[p]

\* C3: when two clients edit different records of the hedge ledger, one of
\* them before the notification of the other's edit has reached it, then
\* once nothing is pending or in flight both clients and the backend hold
\* the same ledger and that ledger has the effect of both edits
ConcurrentEditsConverge ==
    ( /\ Quiescent
      /\ ops = 2
      /\ \A c \in Clients : mounted[c] = "mounted" /\ edit[c] # << >>
      /\ edit[1][1].id # edit[2][1].id
      /\ \E c \in Clients : edit[c][1].behind )
    => /\ \A c \in Clients : Stored(value[c]["hedges"]) = backend["hedges"]
       /\ \A c \in Clients :
             LET e == edit[c][1]
                 ledger == IF backend["hedges"] = << >> THEN << >>
                           ELSE backend["hedges"][1]
             IN  IF e.kind = "delete" THEN e.id \notin DOMAIN ledger
                 ELSE e.id \in DOMAIN ledger /\ ledger[e.id] = e.entry

\* C6: when the first notification of a collection reports that the backend
\* holds nothing at the path, the client writes its default value to the
\* backend and the collection is Synced with the default as local value
FirstEmptyNotificationSeeds ==
    [][\A c \in Clients : DeliverStep(c) =>
          LET n == Head(inbox[c])
              dflt == DefaultValue(loadTime[c], n.path)
          IN  (isInitialLoad[c][n.path] /\ n.data = << >>) =>
                  /\ sent'[c] = << Write(n.path, dflt) >>
                  /\ backend'[n.path] = Stored(dflt)
                  /\ value'[c][n.path] = dflt
                  /\ ~loading'[c][n.path]
      ]_vars

FirstEmptyNotificationSeedsWitness ==
    \E c \in Clients :
        /\ note[c] # << >>
        /\ note[c][1].first
        /\ note[c][1].data = << >>
        /\ note[c][1].path = "hedges"
        /\ sent[c] = << Write("hedges", defaultHedgesObj(loadTime[c])) >>
        /\ backend["hedges"] = << defaultHedgesObj(loadTime[c]) >>
        /\ value[c]["hedges"] = defaultHedgesObj(loadTime[c])
        /\ ~loading[c]["hedges"]

\* C11: no two calls of genId return the same id, be they calls of one
\* client or of two clients: the ids a step generates in a client are as
\* many as the calls made and none of them was returned to any client before
GenIdNeverCollides ==
    [][\A c \in Clients :
          idc'[c] # idc[c] =>
              LET new == issued'[c] \ issued[c]
              IN  /\ Cardinality(new) = idc'[c] - idc[c]
                  /\ \A d \in Clients \ {c} : new \cap issued[d] = {}
      ]_vars

\* C10: a create with quantity > 0 adds exactly one record to the ledger of
\* the client, under an id no record of the ledger had, leaves the other
\* records as they were, and the record is listed under its crop year
CreateAddsFreshRecord ==
    [][\A c \in Clients :
          (ActStep(c) /\ done'[c].op = "saveHedge" /\ done'[c].valid
              /\ edit'[c][1].kind = "create") =>
             LET old == value[c]["hedges"]
                 new == value'[c]["hedges"]
                 e == edit'[c][1]
             IN  /\ e.id \notin DOMAIN old
                 /\ DOMAIN new = DOMAIN old \cup {e.id}
                 /\ Cardinality(DOMAIN new) = Cardinality(DOMAIN old) + 1
                 /\ \A k \in DOMAIN old \ {e.id} : new[k] = old[k]
                 /\ \E h \in filteredHedges(new, e.entry.cropYear, "All") :
                       h.id = << e.id >> /\ h.quantity = e.entry.quantity
      ]_vars

\* C12: a confirmed delete of hedge id removes the key id from the ledger
\* of the client and nothing else: every other key stays, with its value,
\* and that ledger is what the client writes
DeleteRemovesOneKey ==
    [][\A c \in Clients :
          (ActStep(c) /\ done'[c].op = "deleteHedge" /\ done'[c].ok) =>
             LET old == value[c]["hedges"]
                 new == value'[c]["hedges"]
                 id == done'[c].id
             IN  /\ id \in DOMAIN old
                 /\ DOMAIN new = DOMAIN old \ {id}
                 /\ \A k \in DOMAIN new : new[k] = old[k]
                 /\ WritesOf(sent'[c], "hedges") = << Write("hedges", new) >>
      ]_vars

DeleteRemovesOneKeyWitness ==
    \E c \in Clients :
        /\ done[c].op = "deleteHedge"
        /\ done[c].ok
        /\ WritesOf(sent[c], "hedges") = << Write("hedges", value[c]["hedges"]) >>
        /\ done[c].id \notin DOMAIN value[c]["hedges"]
        /\ DOMAIN value[c]["hedges"] # {}

\* C13: an update is applied to an id the ledger of the client has and
\* replaces the value at that key: the keys of the ledger are the same
\* before and after, and the value of every other key is unchanged, also
\* when another client deleted the record while the edit was open
UpdateKeepsKeys ==
    [][\A c \in Clients :
          (ActStep(c) /\ done'[c].op = "saveHedge" /\ done'[c].valid
              /\ edit'[c][1].kind = "update") =>
             LET old == value[c]["hedges"]
                 new == value'[c]["hedges"]
                 e == edit'[c][1]
             IN  /\ e.id \in DOMAIN old
                 /\ DOMAIN new = DOMAIN old
                 /\ new[e.id] = e.entry
                 /\ \A k \in DOMAIN old \ {e.id} : new[k] = old[k]
      ]_vars

\* C14: every hedge record of every client's ledger and of the backend
\* ledger has a quantity above 0
PositiveQuantities ==
    /\ \A c \in Clients : \A k \in DOMAIN value[c]["hedges"] :
          value[c]["hedges"][k].quantity > 0
    /\ backend["hedges"] # << >> =>
          \A k \in DOMAIN backend["hedges"][1] : backend["hedges"][1][k].quantity > 0

PositiveQuantitiesWitness ==
    \E c, d \in Clients :
        /\ done[c].op = "saveHedge" /\ ~done[c].valid
        /\ ParseInt(hedgeForm[c].quantity) # << >>
        /\ ParseInt(hedgeForm[c].quantity)[1] <= 0
        /\ edit[d] # << >>
        /\ backend["hedges"] # << >>
        /\ edit[d][1].id \in DOMAIN backend["hedges"][1]
        /\ backend["hedges"][1][edit[d][1].id].quantity = 7

\* C15: saveHedge on a form whose quantity is not a number or is 0 or less
\* changes nothing: the client's collections, the backend and the snapshots
\* in flight are as before, no write is issued and no timeout is started
InvalidSaveIsNoOp ==
    [][\A c \in Clients :
          ( /\ done'[c] # done[c]
            /\ done'[c].op = "saveHedge"
            /\ LET q == ParseInt(hedgeForm[c].quantity) IN q = << >> \/ q[1] <= 0 ) =>
             /\ value' = value
             /\ backend' = backend
             /\ inbox' = inbox
             /\ timers' = timers
             /\ sent'[c] = << >>
      ]_vars

InvalidSaveIsNoOpWitness ==
    \E c \in Clients :
        /\ done[c].op = "saveHedge" /\ ~done[c].valid
        /\ hedgeForm[c].quantity = << "x" >>
        /\ editingHedge[c] # << >>
        /\ hedgeModalOpen[c]
        /\ sent[c] = << >>

\* C16: addAudit puts one new entry, with a generated id and the current
\* time, in front of the audit sequence of the client: after it the sequence
\* is the new entry followed by the whole previous sequence
AuditPrepends ==
    [][\A c \in Clients :
          (ActStep(c) /\ "auditLog" \in done'[c].muts) =>
             LET old == value[c]["auditLog"]
                 new == value'[c]["auditLog"]
             IN  /\ Len(new) = Len(old) + 1
                 /\ \A i \in DOMAIN old : new[i + 1] = old[i]
                 /\ new[1].id = Id(idc'[c], clock[c])
                 /\ new[1].timestamp = clock[c]
      ]_vars

AuditPrependsWitness ==
    \E c \in Clients :
        /\ "auditLog" \in done[c].muts
        /\ Len(value[c]["auditLog"]) = Len(PriorBackend["auditLog"][1]) + 2
        /\ value[c]["auditLog"][1].action = "Hedge Deleted"
        /\ value[c]["auditLog"][2].action = "Hedge Created"
        /\ SubSeq(value[c]["auditLog"], 3, Len(value[c]["auditLog"]))
              = PriorBackend["auditLog"][1]

\* C17: an audit entry the backend audit log holds is never changed or
\* removed: it is in the backend audit log after every step
AuditNeverLost ==
    [][backend["auditLog"] # << >> =>
          /\ backend'["auditLog"] # << >>
          /\ LET old == backend["auditLog"][1]
                 new == backend'["auditLog"][1]
             IN  \A i \in DOMAIN old : \E j \in DOMAIN new : new[j] = old[i]
      ]_vars

\* C19: the crop-year set is never empty, in the client (once Synced) and
\* in the backend, and removeCropYear on a set of one year is rejected and
\* changes nothing
CropYearsNeverEmpty ==
    /\ [](\A c \in Clients :
            (mounted[c] = "mounted" /\ ~loading[c]["cropYears"]) =>
                /\ Len(value[c]["cropYears"]) >= 1
                /\ backend["cropYears"] # << >>
                /\ Len(backend["cropYears"][1]) >= 1)
    /\ [][\A c \in Clients :
            ( /\ done'[c] # done[c]
              /\ done'[c].op = "removeCropYear"
              /\ Len(value[c]["cropYears"]) = 1 ) =>
               /\ value' = value
               /\ backend' = backend
               /\ inbox' = inbox
               /\ selectedYear' = selectedYear
               /\ sent'[c] = << >>
        ]_vars

CropYearsNeverEmptyWitness ==
    \E c \in Clients :
        /\ done[c].op = "removeCropYear"
        /\ ~done[c].valid
        /\ value[c]["cropYears"] = << done[c].year >>
        /\ backend["cropYears"] = << << done[c].year >> >>

\* the array is in ascending order
IsSorted(arr) == \A i, j \in DOMAIN arr : i < j => ~StrLess(arr[j], arr[i])

\* C20: the crop-year set is sorted ascending in every client and in the
\* backend, whatever years the clients add and remove
CropYearsSorted ==
    /\ \A c \in Clients : IsSorted(value[c]["cropYears"])
    /\ backend["cropYears"] # << >> => IsSorted(backend["cropYears"][1])

CropYearsSortedWitness ==
    \E c \in Clients :
        /\ done[c].op = "addCropYear"
        /\ done[c].valid
        /\ value[c]["cropYears"] = << Y2024, Y2025, Y2026 >>
        /\ backend["cropYears"] = << value[c]["cropYears"] >>

\* C18: a hedge create, update or delete and a crop-year add or remove that
\* goes through adds exactly one entry to the audit log of the client, with
\* the action Hedge Created, Hedge Modified, Hedge Deleted, Year Added or
\* Year Removed; one that is rejected adds none
OneAuditEntryPerOperation ==
    [][\A c \in Clients :
          (ActStep(c) /\ done'[c].op \in {"saveHedge", "deleteHedge",
                                          "addCropYear", "removeCropYear"}) =>
             LET old == value[c]["auditLog"]
                 new == value'[c]["auditLog"]
                 op == done'[c].op
                 went == IF op = "deleteHedge" THEN done'[c].ok ELSE done'[c].valid
                 action ==
                     CASE op = "deleteHedge" -> "Hedge Deleted"
                       [] op = "addCropYear" -> "Year Added"
                       [] op = "removeCropYear" -> "Year Removed"
                       [] op = "saveHedge" ->
                            IF editingHedge[c] # << >> THEN "Hedge Modified"
                            ELSE "Hedge Created"
             IN  IF went
                 THEN /\ Len(new) = Len(old) + 1
                      /\ \A i \in DOMAIN old : new[i + 1] = old[i]
                      /\ new[1].action = action
                      /\ WritesOf(sent'[c], "auditLog") = << Write("auditLog", new) >>
                 ELSE /\ new = old
                      /\ sent'[c] = << >>
      ]_vars

OneAuditEntryPerOperationWitness ==
    \E c, d \in Clients :
        /\ c # d
        /\ done[c].op = "addCropYear" /\ done[c].valid
        /\ value[c]["auditLog"][1].action = "Year Added"
        /\ done[d].op = "saveHedge" /\ done[d].valid
        /\ value[d]["auditLog"][1].action = "Hedge Modified"

\* C21: removing the selected crop year, when more than one year is left,
\* moves the selection to the first of the remaining years in ascending
\* order, a member of the crop-year set after the removal
RemoveReselects ==
    [][\A c \in Clients :
          ( /\ ActStep(c)
            /\ done'[c].op = "removeCropYear"
            /\ done'[c].valid
            /\ selectedYear[c] = done'[c].year ) =>
             LET left == value'[c]["cropYears"]
             IN  /\ Includes(left, selectedYear'[c])
                 /\ \A i \in DOMAIN left : ~StrLess(left[i], selectedYear'[c])
      ]_vars

RemoveReselectsWitness ==
    \E c \in Clients :
        /\ done[c].op = "removeCropYear"
        /\ done[c].valid
        /\ done[c].year = Y2025
        /\ value[c]["cropYears"] = << Y2024, Y2026 >>
        /\ selectedYear[c] = Y2024

\* C22: addCropYear with a text that, trimmed, is empty, is not four digits
\* or is a year of the set changes nothing: the client's collections, the
\* backend and the snapshots in flight are as before and no write is issued
InvalidYearIsNoOp ==
    [][\A c \in Clients :
          ( /\ done'[c] # done[c]
            /\ done'[c].op = "addCropYear"
            /\ LET y == Trim(done'[c].text)
               IN  \/ y = << >>
                   \/ Len(y) # 4
                   \/ \E i \in DOMAIN y : y[i] \notin DigitChars
                   \/ Includes(value[c]["cropYears"], y) ) =>
             /\ value' = value
             /\ backend' = backend
             /\ inbox' = inbox
             /\ timers' = timers
             /\ selectedYear' = selectedYear
             /\ sent'[c] = << >>
      ]_vars

InvalidYearIsNoOpWitness ==
    \E c, d \in Clients :
        /\ c # d
        /\ done[c].op = "addCropYear" /\ ~done[c].valid
        /\ done[c].text = << "2", "4" >>
        /\ done[d].op = "addCropYear" /\ ~done[d].valid
        /\ done[d].text = Y2026
        /\ sent[c] = << >> /\ sent[d] = << >>

\* C23: a collection is Loading, holding the placeholder value, from the
\* construction of the hook to its first notification, is Synced from that
\* notification on and is never Loading again
LoadingThenSynced ==
    /\ [](\A c \in Clients, p \in Paths :
            /\ mounted[c] = "init" => loading[c][p]
            /\ loading[c][p] =>
                  isInitialLoad[c][p] /\ value[c][p] = DefaultValue(loadTime[c], p))
    /\ [][\A c \in Clients, p \in Paths :
            /\ ~loading[c][p] => ~loading'[c][p]
            /\ (DeliverStep(c) /\ Head(inbox[c]).path = p) => ~loading'[c][p]
            /\ (loading[c][p] /\ ~loading'[c][p]) =>
                  DeliverStep(c) /\ Head(inbox[c]).path = p
        ]_vars

LoadingThenSyncedWitness ==
    \E c \in Clients :
        /\ mounted[c] = "mounted"
        /\ ~loading[c]["consumption"]
        /\ loading[c]["auditLog"]
        /\ note[c] # << >> /\ note[c][1].first

\* C5: a snapshot delivered to a Synced client sets its local value to the
\* value the snapshot carries, and the client stays Synced
NotificationOverwrites ==
    [][\A c \in Clients : DeliverStep(c) =>
          LET n == Head(inbox[c])
          IN  ~isInitialLoad[c][n.path] =>
                  /\ Stored(value'[c][n.path]) = n.data
                  /\ ~loading'[c][n.path]
      ]_vars

----------------------------------------------------------------------------
(* Positions *)

\* calc and exposureChartData as client c computes them, for a year y
CalcFor(c, y) ==
    calc(value[c]["consumption"], value[c]["production"],
         hedgesObjToArray(value[c]["hedges"]), y)

SeriesFor(c) ==
    exposureChartData(value[c]["consumption"], value[c]["production"],
                      hedgesObjToArray(value[c]["hedges"]), value[c]["cropYears"])

\* the years a client lists or has selected
YearsOf(c) ==
    {value[c]["cropYears"][i] : i \in DOMAIN value[c]["cropYears"]} \cup {selectedYear[c]}

\* the sum of the quantities of a set of records
RECURSIVE QtySum(_)
QtySum(hs) ==
    IF hs = {} THEN 0
    ELSE LET h == CHOOSE x \in hs : TRUE
         IN  h.quantity + QtySum(hs \ {h})

\* the figure obj[k1][k2], 0 when there is no such entry
Figure(obj, k1, k2) ==
    IF k1 \in DOMAIN obj THEN (IF k2 \in DOMAIN obj[k1] THEN obj[k1][k2] ELSE 0) ELSE 0

\* C24: for every client snapshot and every year y, calc returns totalCons =
\* hog + feedlot consumption of y, totalProd = the production of y summed
\* over the corn types, netCash = totalProd - totalCons, each entity's hedge
\* = its Long quantities of y minus its Short quantities of y, each entity's
\* net = physical + hedge (consumers -consumption, Farming +totalProd),
\* totalHedge = the sum of the three hedges, netPosition = netCash +
\* totalHedge; a missing figure counts as 0
CalcFormulas ==
    \A c \in Clients : \A y \in YearsOf(c) :
        LET r == CalcFor(c, y)
            cons == value[c]["consumption"]
            prod == value[c]["production"]
            hs == hedgesObjToArray(value[c]["hedges"])
            Of(e, d) == {h \in hs : h.cropYear = y /\ h.entity = e /\ h.direction = d}
            EntityHedge(e) == QtySum(Of(e, "Long")) - QtySum(Of(e, "Short"))
            hog == Figure(cons, "Hog Finishing", y)
            feed == Figure(cons, "Feedlot", y)
            total == Figure(prod, y, "High Moisture Corn") + Figure(prod, y, "Dry Corn")
                        + Figure(prod, y, "Silage Corn")
        IN  /\ r.totalCons = hog + feed
            /\ r.totalProd = total
            /\ r.netCash = total - (hog + feed)
            /\ r.hogHedge = EntityHedge("Hog Finishing")
            /\ r.feedHedge = EntityHedge("Feedlot")
            /\ r.farmHedge = EntityHedge("Farming")
            /\ r.hogNet = EntityHedge("Hog Finishing") - hog
            /\ r.feedNet = EntityHedge("Feedlot") - feed
            /\ r.farmNet = total + EntityHedge("Farming")
            /\ r.totalHedge = EntityHedge("Hog Finishing") + EntityHedge("Feedlot")
                                + EntityHedge("Farming")
            /\ r.netPosition = (total - (hog + feed)) + r.totalHedge

CalcFormulasWitness ==
    \E c \in Clients :
        /\ selectedYear[c] = Y2028
        /\ done[c].op = "updateConsumption"
        /\ Y2028 \notin DOMAIN value[c]["production"]
        /\ Y2028 \notin DOMAIN value[c]["consumption"]["Feedlot"]
        /\ CalcFor(c, Y2028).netPosition = 5
        /\ CalcFor(c, Y2025).farmHedge < 0
        /\ CalcFor(c, Y2025).hogHedge > 0

\* C25: with Hog Finishing consumption 2,600,000 and Dry Corn production
\* 3,000,000 for 2025 and nothing else for that year, calc for 2025 gives
\* totalCons 2,600,000, totalProd 3,000,000, netCash 400,000, hogNet
\* -2,600,000, farmNet 3,000,000 and netPosition 400,000 when the ledger has
\* no 2025 record, and farmHedge -600,000 and farmNet 2,400,000 when its only
\* 2025 record is Farming, Short, 600,000
ExampleScenario ==
    \A c \in Clients :
        LET r == CalcFor(c, Y2025)
            cons == value[c]["consumption"]
            prod == value[c]["production"]
            hs == {h \in hedgesObjToArray(value[c]["hedges"]) : h.cropYear = Y2025}
        IN  ( /\ Figure(cons, "Hog Finishing", Y2025) = 2600000
              /\ Figure(cons, "Feedlot", Y2025) = 0
              /\ Figure(prod, Y2025, "Dry Corn") = 3000000
              /\ Figure(prod, Y2025, "High Moisture Corn") = 0
              /\ Figure(prod, Y2025, "Silage Corn") = 0 ) =>
                /\ r.totalCons = 2600000
                /\ r.totalProd = 3000000
                /\ r.netCash = 400000
                /\ hs = {} =>
                      /\ r.hogNet = 0 - 2600000
                      /\ r.farmNet = 3000000
                      /\ r.netPosition = 400000
                /\ ( /\ Cardinality(hs) = 1
                     /\ \A h \in hs : /\ h.entity = "Farming"
                                      /\ h.direction = "Short"
                                      /\ h.quantity = 600000 ) =>
                      /\ r.farmHedge = 0 - 600000
                      /\ r.farmNet = 2400000

\* a client that saw the empty 2025 ledger has entered the Farming Short
\* record of 600,000
ExampleScenarioWitness ==
    \E c \in Clients :
        /\ done[c].op = "saveHedge" /\ done[c].valid
        /\ edit[c] # << >> /\ edit[c][1].kind = "create"
        /\ value[c]["consumption"]["Hog Finishing"][Y2025] = 2600000
        /\ value[c]["production"][Y2025]["Dry Corn"] = 3000000
        /\ CalcFor(c, Y2025).totalCons = 2600000
        /\ CalcFor(c, Y2025).totalProd = 3000000
        /\ CalcFor(c, Y2025).yearHedges =
              {[id |-> << edit[c][1].id >>, entity |-> "Farming", cropYear |-> Y2025,
                contractType |-> "Futures", contractMonth |-> "Jul",
                quantity |-> 600000, direction |-> "Short"]}
        /\ CalcFor(c, Y2025).farmNet = 2400000

\* C26: for each entity the hedge coverage ratio is abs(entity hedge) /
\* physical magnitude * 100 (consumption for the consumers, total production
\* for Farming), it is 0 whenever that magnitude is 0, and it never divides
\* by 0
HedgeRatio ==
    \A c \in Clients : \A y \in YearsOf(c) :
        LET r == CalcFor(c, y)
            Holds(pct, hedge, physical) ==
                /\ pct.den # 0
                /\ physical = 0 => pct.num = 0
                /\ physical # 0 =>
                      pct = [num |-> Abs(hedge) * 100, den |-> Abs(physical)]
        IN  /\ Holds(r.hogHedgePct, r.hogHedge, r.hogCons)
            /\ Holds(r.feedHedgePct, r.feedHedge, r.feedCons)
            /\ Holds(r.farmHedgePct, r.farmHedge, r.totalProd)

\* C27: the multi-year series has one entry per year of the crop-year set,
\* in the set's order, and the entry of year y holds totalProd, -totalCons,
\* netCash, totalHedge and netPosition of calc for selected year y on the
\* same snapshot
SeriesMatchesCalc ==
    \A c \in Clients :
        LET series == SeriesFor(c)
            years == value[c]["cropYears"]
        IN  /\ DOMAIN series = 1 .. Len(years)
            /\ \A i \in 1 .. Len(years) :
                  LET r == CalcFor(c, years[i])
                  IN  /\ series[i].year = years[i]
                      /\ series[i].Production = r.totalProd
                      /\ series[i].Consumption = 0 - r.totalCons
                      /\ series[i].NetCash = r.netCash
                      /\ series[i].HedgePosition = r.totalHedge
                      /\ series[i].NetPosition = r.netPosition

SeriesMatchesCalcWitness ==
    \E c \in Clients :
        /\ done[c].op = "updateProduction"
        /\ done[c].year = Y2028
        /\ Len(SeriesFor(c)) = 5
        /\ SeriesFor(c)[2].year = Y2025
        /\ SeriesFor(c)[2].HedgePosition = 500000
        /\ SeriesFor(c)[2].Consumption = 0 - 4550000
        /\ SeriesFor(c)[5].year = Y2028
        /\ SeriesFor(c)[5].NetPosition = 0 - 5

\* every figure of a consumption record is a non-negative integer
ConsumptionNonNegative(cons) ==
    \A e \in DOMAIN cons : \A y \in DOMAIN cons[e] : cons[e][y] \in Nat

\* every figure of a production record is a non-negative integer
ProductionNonNegative(prod) ==
    \A y \in DOMAIN prod : \A t \in DOMAIN prod[y] : prod[y][t] \in Nat

\* C28: every consumption figure and every production figure, in each client
\* and in the backend, is a non-negative integer, whatever text the
\* consumption and production fields are given
FiguresNonNegative ==
    /\ \A c \in Clients :
          /\ ConsumptionNonNegative(value[c]["consumption"])
          /\ ProductionNonNegative(value[c]["production"])
    /\ backend["consumption"] # << >> => ConsumptionNonNegative(backend["consumption"][1])
    /\ backend["production"] # << >> => ProductionNonNegative(backend["production"][1])

----------------------------------------------------------------------------
(* Concurrent edits of the figures *)

\* the record of an edit of a consumption or production figure
IsEdit(d) == d.op \in {"updateConsumption", "updateProduction"}

\* the key an edit sets, as the two keys of the nested object
EditKey(d) ==
    IF d.op = "updateConsumption" THEN << d.entity, d.year >> ELSE << d.year, d.type >>

\* the last edit of each client changed a figure of collection p, the two
\* started from the same value of the collection and set different keys, and
\* one of them was made while the debounced write of the other was pending
\* (overlap holds the edits that were pending)
Clobbering(p) ==
    /\ \A c \in Clients : IsEdit(done[c]) /\ done[c].muts = {p} /\ done[c].changed
    /\ \A c, d \in Clients : c # d =>
          EditKey(done[c]) # EditKey(done[d]) /\ done[c].base = done[d].base
    /\ \E c, d \in Clients : c # d /\ done[d].seq \in done[c].overlap

\* C29: when two clients change different keys of one debounced collection
\* within overlapping debounce windows, every debounced write replaces the
\* whole value of the path by the writer's view, so once both have landed
\* and the notifications are delivered, the backend and every client hold
\* the view of one of the two and the other's change is in none of them
LastWriteClobbers ==
    /\ [](\A p \in {"consumption", "production"} :
            (Quiescent /\ Clobbering(p)) =>
                \E w \in Clients : \A l \in Clients \ {w} :
                    /\ backend[p] = << done[w].view >>
                    /\ \A c \in Clients : value[c][p] = done[w].view
                    /\ Figure(done[w].view, EditKey(done[l])[1], EditKey(done[l])[2])
                          # ParseIntOr0(done[l].text))
    /\ [][\A c \in Clients : FireStep(c) =>
            \A t \in timers[c] \ timers'[c] : backend'[t.path] = Stored(t.next)
        ]_vars

\* both writes have landed, client 1's last, and the notifications are
\* delivered
LastWriteClobbersWitness ==
    /\ Quiescent
    /\ Clobbering("consumption")
    /\ done[1].entity = "Hog Finishing" /\ done[2].entity = "Feedlot"
    /\ backend["consumption"] = << done[1].view >>
    /\ value[2]["consumption"]["Feedlot"][Y2025] # 7
    /\ value[2]["consumption"]["Hog Finishing"][Y2025] = 7

----------------------------------------------------------------------------
(* Confirmation, loading and frame conditions *)

\* C31: deleteHedge and removeCropYear with a declined confirmation change
\* nothing: the local collections of every client, the selection, the
\* backend, the pending timeouts and the snapshots in flight are as before
\* and no set() is called
DeclinedChangesNothing ==
    [][\A c \in Clients :
          ( /\ ActStep(c)
            /\ done'[c].op \in {"deleteHedge", "removeCropYear"}
            /\ ~done'[c].ok ) =>
              /\ value' = value
              /\ selectedYear' = selectedYear
              /\ backend' = backend
              /\ inbox' = inbox
              /\ timers' = timers
              /\ idc' = idc
              /\ sent'[c] = << >>
      ]_vars

\* one client has declined a delete and the other a removal (of the selected
\* year, with another year left); ledger and years are as loaded
DeclinedChangesNothingWitness ==
    \E c, d \in Clients :
        /\ done[c].op = "deleteHedge" /\ ~done[c].ok
        /\ done[d].op = "removeCropYear" /\ ~done[d].ok
        /\ done[d].year = selectedYear[d]
        /\ Len(value[d]["cropYears"]) = 2
        /\ ops = 0
        /\ done[c].id \in DOMAIN value[c]["hedges"]
        /\ backend["auditLog"] = TwoYearBackend["auditLog"]

\* C32: while a debounced write of a collection is pending on a client, the
\* local value of the collection is the value the pending write carries,
\* also after a notification was delivered in the debounce window
LocalMatchesPending ==
    \A c \in Clients : \A t \in timers[c] : value[c][t.path] = t.next

\* C33: a client writes the default value of a path only when its callback
\* runs for the first notification of the path and that notification is
\* empty; the callback makes no write for a first notification that carries
\* a value, nor for an empty notification after the first, and a client
\* writes only in its callbacks, handlers and timeouts
SeedsOnlyOnFirstEmpty ==
    [][\A c \in Clients :
          /\ DeliverStep(c) =>
                LET n == Head(inbox[c])
                IN  IF isInitialLoad[c][n.path] /\ n.data = << >>
                    THEN sent'[c] = << Write(n.path, DefaultValue(loadTime[c], n.path)) >>
                    ELSE sent'[c] = << >> /\ backend' = backend
          /\ ~(DeliverStep(c) \/ ActStep(c) \/ FireStep(c)) => sent'[c] = sent[c]
      ]_vars

\* an empty notification of the ledger reached a client after its first one:
\* the client wrote nothing and the path stays empty
SeedsOnlyOnFirstEmptyWitness ==
    \E c \in Clients :
        /\ note[c] # << >>
        /\ note[c][1] = [path |-> "hedges", data |-> << >>, first |-> FALSE]
        /\ sent[c] = << >>
        /\ backend["hedges"] = << >>
        /\ value[c]["hedges"] # << >>

\* C34: the selected crop year of a client that shows the dashboard is a
\* member of the client's local crop-year set
SelectedYearListed ==
    \A c \in Clients :
        (mounted[c] = "mounted" /\ ~isLoading(c)) =>
            Includes(value[c]["cropYears"], selectedYear[c])

\* C35: when every ledger record of the year belongs to one of the three
\* entities, the three per-entity net positions add up to the enterprise net
\* position, which is netCash plus the signed quantities of all records of
\* the year, and the three per-entity physical positions add up to netCash
NetsAddUp ==
    \A c \in Clients : \A y \in YearsOf(c) :
        LET r == CalcFor(c, y)
            hs == {h \in hedgesObjToArray(value[c]["hedges"]) : h.cropYear = y}
        IN  (\A h \in hs : h.entity \in {"Hog Finishing", "Feedlot", "Farming"}) =>
                /\ r.hogNet + r.feedNet + r.farmNet = r.netPosition
                /\ r.netPosition =
                      r.netCash + QtySum({h \in hs : h.direction = "Long"})
                                - QtySum({h \in hs : h.direction = "Short"})
                /\ r.hogNetCash + r.feedNetCash + r.farmNetCash = r.netCash

\* a client with records of all three entities in 2025 has edited a figure
NetsAddUpWitness ==
    \E c \in Clients :
        /\ done[c].op = "updateProduction"
        /\ done[c].year = Y2025
        /\ LET r == CalcFor(c, Y2025)
           IN  /\ r.hogHedge = 800000
               /\ r.feedHedge = 650000
               /\ r.farmHedge = 0 - 950000
               /\ r.netPosition = r.netCash + 500000
               /\ r.farmNet # r.netPosition

\* the nested object new is old with the cell [k1][k2] set to v and every
\* other cell, present or absent, as in old
OnlyCellSet(old, new, k1, k2, v) ==
    /\ DOMAIN new = DOMAIN old \cup {k1}
    /\ new[k1][k2] = v
    /\ \A a \in DOMAIN new :
          LET before == IF a \in DOMAIN old THEN old[a] ELSE << >>
          IN  /\ DOMAIN new[a] = DOMAIN before \cup (IF a = k1 THEN {k2} ELSE {})
              /\ \A b \in DOMAIN new[a] :
                    << a, b >> # << k1, k2 >> => new[a][b] = before[b]

\* C36: updateConsumption(entity, year, v) changes only the cell
\* [entity][year] of the local consumption collection and
\* updateProduction(year, type, v) only the cell [year][type] of production;
\* every other cell keeps its value, and the pending write carries that
\* value
OnlyTouchedCellChanges ==
    [][\A c \in Clients : ActStep(c) =>
          /\ done'[c].op = "updateConsumption" =>
                /\ OnlyCellSet(value[c]["consumption"], value'[c]["consumption"],
                               done'[c].entity, done'[c].year, ParseIntOr0(done'[c].text))
                /\ \A t \in PendingOf(timers'[c], "consumption") :
                      t.next = value'[c]["consumption"]
          /\ done'[c].op = "updateProduction" =>
                /\ OnlyCellSet(value[c]["production"], value'[c]["production"],
                               done'[c].year, done'[c].type, ParseIntOr0(done'[c].text))
                /\ \A t \in PendingOf(timers'[c], "production") :
                      t.next = value'[c]["production"]
      ]_vars

\* a figure of the added year 2028, which had no cell, was set: the cell is
\* new and the cells of the other years are as in the defaults
OnlyTouchedCellChangesWitness ==
    \E c \in Clients :
        /\ done[c].op = "updateConsumption"
        /\ done[c].year = Y2028
        /\ done[c].text = << "-", "5" >>
        /\ Y2028 \notin DOMAIN done[c].base["Hog Finishing"]
        /\ value[c]["consumption"]["Hog Finishing"][Y2028] = 0 - 5
        /\ value[c]["consumption"]["Hog Finishing"][Y2025]
              = done[c].base["Hog Finishing"][Y2025]
        /\ value[c]["consumption"]["Feedlot"] = done[c].base["Feedlot"]

\* C37: a confirmed removeCropYear changes only the crop-year set, the
\* selection and the audit log: the hedge ledger, consumption and production
\* of every client and of the backend are unchanged, the entries of the
\* removed year included, and nothing is written or scheduled for them
RemoveKeepsData ==
    [][\A c \in Clients :
          (ActStep(c) /\ done'[c].op = "removeCropYear" /\ done'[c].valid) =>
              /\ \A p \in {"hedges", "consumption", "production"} :
                    /\ \A d \in Clients : value'[d][p] = value[d][p]
                    /\ backend'[p] = backend[p]
                    /\ WritesOf(sent'[c], p) = << >>
              /\ timers' = timers
              /\ \A d \in Clients \ {c} : selectedYear'[d] = selectedYear[d]
              /\ UNCHANGED << editingHedge, hedgeForm, hedgeModalOpen >>
      ]_vars

\* the year 2025 was removed; the 2025 hedge and the 2025 figures are still
\* held by the client and by the backend
RemoveKeepsDataWitness ==
    \E c \in Clients :
        /\ done[c].op = "removeCropYear" /\ done[c].valid
        /\ done[c].year = Y2025
        /\ ~Includes(value[c]["cropYears"], Y2025)
        /\ \E id \in DOMAIN value[c]["hedges"] : value[c]["hedges"][id].cropYear = Y2025
        /\ backend["hedges"] = << value[c]["hedges"] >>
        /\ Y2025 \in DOMAIN value[c]["production"]
        /\ Y2025 \in DOMAIN backend["consumption"][1]["Hog Finishing"]

\* no element of the array occurs twice
NoDuplicates(arr) == \A i, j \in DOMAIN arr : arr[i] = arr[j] => i = j

\* C38: the crop-year set holds no year twice, in every client and in the
\* backend, whatever years the clients add and remove
CropYearsDistinct ==
    /\ \A c \in Clients : NoDuplicates(value[c]["cropYears"])
    /\ backend["cropYears"] # << >> => NoDuplicates(backend["cropYears"][1])

\* both clients added 2027, each before it saw the other's write, and the
\* notifications are delivered
CropYearsDistinctWitness ==
    /\ \A c \in Clients :
          /\ done[c].op = "addCropYear" /\ done[c].valid
          /\ done[c].text = Y2027
          /\ value[c]["cropYears"] = << Y2025, Y2026, Y2027 >>
    /\ Quiescent
    /\ backend["cropYears"] = << << Y2025, Y2026, Y2027 >> >>
    /\ Len(backend["auditLog"][1]) = Len(TwoYearBackend["auditLog"][1]) + 1

\* C39: an operation of the dashboard is performed only by a client whose
\* five collections are all Synced; a client with a Loading collection has
\* no timeout pending, and the only set() it calls is the write of the
\* default value by which its callback answers an empty first notification
MutationsOnlyWhenSynced ==
    /\ [](\A c \in Clients : isLoading(c) => timers[c] = {})
    /\ [][\A c \in Clients :
            /\ ActStep(c) =>
                  mounted[c] = "mounted" /\ \A p \in Paths : ~loading[c][p]
            /\ isLoading(c) =>
                  \/ sent'[c] = sent[c]
                  \/ sent'[c] = << >>
                  \/ /\ DeliverStep(c)
                     /\ isInitialLoad[c][Head(inbox[c]).path]
                     /\ Head(inbox[c]).data = << >>
                     /\ sent'[c] = << Write(Head(inbox[c]).path,
                                            DefaultValue(loadTime[c], Head(inbox[c]).path)) >>
        ]_vars

\* one client edits a figure while the other, still on the loading screen,
\* has seeded a path
MutationsOnlyWhenSyncedWitness ==
    \E c, d \in Clients :
        /\ done[c].op = "updateConsumption"
        /\ mounted[d] = "mounted"
        /\ isLoading(d)
        /\ done[d].op = "none"
        /\ sent[d] # << >>
        /\ timers[c] # {}

====
